---- MODULE Spec2Model ----
(***************************************************************************)
(* A model of nahida's concurrent scheduler (core/scheduler.py) driving    *)
(* the node library (core/node.py) over an executor that reports one event *)
(* per submitted task (core/executor.py).                                  *)
(***************************************************************************)
EXTENDS Integers, Sequences, FiniteSets, TLC

\* ------------------------------------------------------------------ bounds
\* Longest iterable a Repeat is given.
MaxIter == 2
\* Largest max_inflight a scheduler is constructed with.
MaxInflight == 3

\* ------------------------------------------------------------- the graphs
\* Node graphs, built with the node library:
\*   "break" : rep  --iter--> {work, side, br}, work --> brk, br.true --> brk,
\*             rep --stop--> stop
\*   "nested": outer --iter--> inner, inner --iter--> ibrk, ibrk --> iafter
\*   "join"  : loop --iter--> {f1, f2}, f1 --> rc1, f2 --> rc2,
\*             rc1, rc2 --> join --> mark, loop --stop--> fin
\*   "root"  : rbrk --> rafter, with the Break rbrk the only starter
\*   "spin"  : spin, a Repeat without downstreams
\*   "deep"  : douter --iter--> dinner, dinner --iter--> {d1, d2, dbrk}
\*   "race"  : rr --iter--> {rw, rs}, rw --> rbk, rs --> rx
\*   "pair"  : pa --> px, with the two starters pa and pb
\* and a graph with a cycle:
\*   "cycle" : again --> turn, turn.false --> again
Graphs == {"break", "nested", "join", "root", "spin"}

Nodes ==
  {"rep", "work", "side", "br", "brk", "stop",
   "outer", "inner", "ibrk", "iafter",
   "loop", "f1", "f2", "rc1", "rc2", "join", "mark", "fin",
   "rbrk", "rafter", "spin", "again", "turn",
   "douter", "dinner", "d1", "d2", "dbrk",
   "rr", "rw", "rs", "rbk", "rx",
   "pa", "pb", "px"}

Kind(n) ==
  CASE n \in {"rep", "outer", "inner", "loop", "spin", "douter", "dinner",
              "rr"} -> "Repeat"
    [] n \in {"work", "side", "stop", "iafter", "f1", "f2", "mark", "fin", "rafter",
               "again", "d1", "d2", "rw", "rs", "rx", "pa", "pb", "px"}
         -> "Execute"
    [] n \in {"br", "turn"} -> "Branch"
    [] n \in {"brk", "ibrk", "rbrk", "dbrk", "rbk"} -> "Break"
    [] n = "join" -> "Join"
    [] n \in {"rc1", "rc2"} -> "Receiver"

Repeats == {n \in Nodes : Kind(n) = "Repeat"}

starters(g) ==
  CASE g = "break" -> <<"rep">>
    [] g = "nested" -> <<"outer">>
    [] g = "join" -> <<"loop">>
    [] g = "root" -> <<"rbrk">>
    [] g = "spin" -> <<"spin">>
    [] g = "cycle" -> <<"again">>
    [] g = "deep" -> <<"douter">>
    [] g = "race" -> <<"rr">>
    [] g = "pair" -> <<"pa", "pb">>

\* The Repeat nodes a graph contains.
RepeatsOf(g) ==
  CASE g = "break" -> {"rep"}
    [] g = "nested" -> {"outer", "inner"}
    [] g = "join" -> {"loop"}
    [] g = "root" -> {}
    [] g = "spin" -> {"spin"}
    [] g = "cycle" -> {}
    [] g = "deep" -> {"douter", "dinner"}
    [] g = "race" -> {"rr"}
    [] g = "pair" -> {}

\* _Recruiter._downstreams of Execute, Break and Join nodes.
downstreams(n) ==
  CASE n = "work" -> {"brk"}
    [] n = "ibrk" -> {"iafter"}
    [] n = "rbrk" -> {"rafter"}
    [] n = "f1" -> {"rc1"}
    [] n = "f2" -> {"rc2"}
    [] n = "join" -> {"mark"}
    [] n = "again" -> {"turn"}
    [] n = "rw" -> {"rbk"}
    [] n = "rs" -> {"rx"}
    [] n = "pa" -> {"px"}
    [] OTHER -> {}

\* Branch.true and Branch.false.
downstreams_true(n) == IF n = "br" THEN {"brk"} ELSE {}
downstreams_false(n) == IF n = "turn" THEN {"again"} ELSE {}

\* Repeat.iter and Repeat.stop.
downstreams_iter(n) ==
  CASE n = "rep" -> {"work", "side", "br"}
    [] n = "outer" -> {"inner"}
    [] n = "inner" -> {"ibrk"}
    [] n = "loop" -> {"f1", "f2"}
    [] n = "douter" -> {"dinner"}
    [] n = "dinner" -> {"d1", "d2", "dbrk"}
    [] n = "rr" -> {"rw", "rs"}
    [] OTHER -> {}

downstreams_stop(n) ==
  CASE n = "rep" -> {"stop"}
    [] n = "loop" -> {"fin"}
    [] OTHER -> {}

\* Join.receivers: the receivers of the Join node, by index.
receivers == <<"rc1", "rc2">>
ReceiverIndex(n) == CHOOSE i \in DOMAIN receivers : receivers[i] = n
ReceiverParent(n) == "join"

\* ------------------------------------------------------------------ state
VARIABLES
  graph,         \* which graph the forward runs
  iterlen,       \* Repeat node -> length of the iterable it reads
  max_inflight,  \* ConcurrentScheduler._max_inflight
  pc,            \* "run" inside forward's loop, "returned", "raised"
  ready_nodes,   \* deque of (coroutine, scope_id)
  inflight,      \* task id -> (coroutine, scope_id, order_item)
  next_task,     \* the next fresh task id of the executor
  scope_count,   \* ScopeManager._scope_count
  scope_table,   \* ScopeManager.scope_table
  context,       \* handle -> cell (0: unbound, t: the cell of task t's result)
  flags,         \* Join.flags
  cond,          \* what read_context returned to the Branch activated last
  iters,         \* the Repeat.Iter instances created so far
  executor_down, \* executor.shutdown() has been called
  shutdown_futures, \* the tasks shutdown() found in flight and reported CANCELLED
  acts,          \* node -> number of orders its activations have produced
  last           \* the step the scheduler took last

sched_vars ==
  <<graph, iterlen, max_inflight, pc, ready_nodes, inflight, next_task,
    scope_count, scope_table, context, flags, cond, iters, executor_down,
    shutdown_futures, acts, last>>

\* The thread-pool executor on its own (executor.py).
VARIABLES
  _futures,      \* ThreadPoolExecutor._futures: the task ids it holds a future for
  _event_queue,  \* ThreadPoolExecutor._event_queue
  fut_state,     \* task id -> state of its concurrent.futures.Future
  pool_down,     \* the underlying pool was shut down
  received,      \* task id -> the statuses wait() returned for it, in order
  cancel_true,   \* the task ids for which cancel() returned True
  pool_last      \* the call the executor handled last, and how it ended

pool_vars ==
  <<_futures, _event_queue, fut_state, pool_down, received, cancel_true, pool_last>>

\* Expressions on their own (expr.py, context.py).
VARIABLES
  expr,          \* the expression at hand
  data,          \* Context._data: handle -> cell
  result,        \* the outcome of the last evaluation
  expr_last      \* the operation applied last

expr_vars == <<expr, data, result, expr_last>>

\* Cells on their own (context.py): a context maps a handle to a cell, and two
\* contexts may hold the very same cell.
VARIABLES
  _data,         \* Context._data of the parent context: handle -> cell
  _value,        \* SimpleDataRef._value of the cells created so far, by identity
  viewed,        \* Context._data of the context view() returned last
  shared,        \* the handles view() copied that neither context bound anew since
  cell_last      \* the call handled last

cell_vars == <<_data, _value, viewed, shared, cell_last>>

\* The registry of callables on its own (executor.py).
VARIABLES
  _callable_registry,  \* Executor._callable_registry: fid -> callable
  returned,            \* the (fid, callable) pairs of the register calls that returned
  reg_last             \* the register call handled last, and how it ended

reg_vars == <<_callable_registry, returned, reg_last>>

\* The status-tracking Graph on its own (nahida/graph.py).
VARIABLES
  _input_slots,  \* node -> its input slots in order, each with its source
  output_nodes,  \* Graph.output_nodes, the values in insertion order
  dag_status,    \* Graph.status
  slot_context,  \* Graph.context: the nodes whose output slot holds a result
  dag_last       \* the call handled last, how it ended, what the listener heard

dag_vars == <<_input_slots, output_nodes, dag_status, slot_context, dag_last>>

vars == <<sched_vars, pool_vars, expr_vars, cell_vars, reg_vars, dag_vars>>

\* back_id of the root scope and recall of a scope without one (None).
None == -1
NoCoro == [node |-> "none", inst |-> 0]

\* _recall_if_scope_done putting the recall at the head of the ready queue.
_recall_at_front(rd, sm, scope_id) ==
  IF (sm.tab[scope_id].count < 1 \/ sm.tab[scope_id].cancelled)
       /\ sm.tab[scope_id].recall # [node |-> "none", inst |-> 0]
    THEN <<[node |-> sm.tab[scope_id].recall.node, inst |-> sm.tab[scope_id].recall.inst,
            scope |-> sm.tab[scope_id].back_id, cause |-> 0, rank |-> 0]>> \o rd
    ELSE rd

\* A ready-queue entry: the coroutine (a node's activation, or the activation
\* of Iter instance inst > 0 of Repeat node), the scope it is attributed to,
\* and, for bookkeeping, the task whose SUCCESS recruited it (0: none) and, for
\* a Join activation, how many flags were set when its receiver recruited it.
Entry(coro, s, cause, rank) ==
  [node |-> coro.node, inst |-> coro.inst, scope |-> s,
   cause |-> cause, rank |-> rank]

\* The coroutine node.activate(context) returns.  The sources declare activate
\* (the Node protocol of scheduler.py) but do not define it; following the
\* specification it is a generator over the node's orders: Execute, Branch,
\* Repeat, Break, Join and Receiver yield the one order their order() builds,
\* an Iter yields an ENTER order per element of its iterator, then the order
\* recruiting the post-loop downstreams, and is finished after that.
Coro(n) == [node |-> n, inst |-> 0]

\* Every order in which a recruit set can be iterated.
Orderings(S) ==
  {q \in [1..Cardinality(S) -> S] : \A i, j \in 1..Cardinality(S) : q[i] = q[j] => i = j}

NoStep ==
  [op |-> "init", node |-> "none", scope |-> 0, task |-> 0,
   ctl |-> "none", dropped |-> FALSE]

Step(op, n, s, t, ctl, dropped) ==
  [op |-> op, node |-> n, scope |-> s, task |-> t, ctl |-> ctl, dropped |-> dropped]

\* ----------------------------------------------------------- ScopeManager
NodeScope(count, recall, back_id) ==
  [count |-> count, recall |-> recall, back_id |-> back_id, cancelled |-> FALSE]

\* A ScopeManager value: sm.cnt is _scope_count, sm.tab is scope_table.
ScopeManager(num_starters) ==
  [cnt |-> 1, tab |-> [s \in {0} |-> NodeScope(num_starters, NoCoro, None)]]

create_scope(sm, back_id, recall) ==
  [cnt |-> sm.cnt + 1,
   tab |-> [s \in DOMAIN sm.tab \cup {sm.cnt} |->
              IF s = sm.cnt THEN NodeScope(0, recall, back_id) ELSE sm.tab[s]]]

on_node_complete(sm, scope_id) ==
  [sm EXCEPT !.tab[scope_id].count = @ - 1]

\* An on_recruit that counts an order's recruits as one.
on_recruit_one(sm, scope_id, n) ==
  [sm EXCEPT !.tab[scope_id].count = @ + 1]

on_recruit(sm, scope_id, n) ==
  [sm EXCEPT !.tab[scope_id].count = @ + n]

\* A cancel_scope that hands back the cancelled scope itself: the recruits of
\* an EXIT order would stay in the scope that was broken.
cancel_scope_staying(sm, scope_id) ==
  [sm |-> [sm EXCEPT !.tab[scope_id].cancelled = TRUE],
   back_id |-> scope_id,
   raised |-> sm.tab[scope_id].back_id = None]

\* A cancel_scope that hands back the back scope of any scope, the None of the
\* root scope included, without raising.
cancel_scope_silent(sm, scope_id) ==
  [sm |-> [sm EXCEPT !.tab[scope_id].cancelled = TRUE],
   back_id |-> sm.tab[scope_id].back_id,
   raised |-> FALSE]

\* cancel_scope marks the scope, then raises when it has no back scope.
cancel_scope(sm, scope_id) ==
  [sm |-> [sm EXCEPT !.tab[scope_id].cancelled = TRUE],
   back_id |-> sm.tab[scope_id].back_id,
   raised |-> sm.tab[scope_id].back_id = None]

\* A check_scope_done that already fires with one activation outstanding.
check_scope_done_early(sm, scope_id) ==
  IF scope_id \notin DOMAIN sm.tab
    THEN FALSE
    ELSE sm.tab[scope_id].count < 2 \/ sm.tab[scope_id].cancelled

\* A check_scope_done that looks at the count alone.
check_scope_done_counting(sm, scope_id) ==
  IF scope_id \notin DOMAIN sm.tab
    THEN FALSE
    ELSE sm.tab[scope_id].count < 1

check_scope_done(sm, scope_id) ==
  IF scope_id \notin DOMAIN sm.tab
    THEN FALSE
    ELSE sm.tab[scope_id].count < 1 \/ sm.tab[scope_id].cancelled

get_recall(sm, scope_id) == sm.tab[scope_id].recall

\* ------------------------------------------------------------ the scheduler
\* An inner loop condition that stops one task short of the bound.
CanTakeBelowBound == ready_nodes # <<>> /\ Cardinality(inflight) < max_inflight - 1

\* An inner loop condition that admits one task too many.
CanTakeOffByOne == ready_nodes # <<>> /\ Cardinality(inflight) <= max_inflight

\* forward's inner loop condition.
CanTake == ready_nodes # <<>> /\ Cardinality(inflight) < max_inflight

_recall_if_scope_done(rd, sm, scope_id) ==
  IF check_scope_done(sm, scope_id) /\ get_recall(sm, scope_id) # NoCoro
    THEN Append(rd, Entry(get_recall(sm, scope_id), sm.tab[scope_id].back_id, 0, 0))
    ELSE rd

\* "if order_item != FlowControl.EXIT": the order item itself is compared with
\* the enum member, and the two are never equal.
OrderIsNotExit(order) == TRUE

\* The control instruction of an order: the scope manager and the scope the
\* recruits go to.
ControlStep(sm, order, coro, scope_id) ==
  CASE order.control = "enter" ->
         [sm |-> create_scope(sm, scope_id, coro), dest |-> sm.cnt, raised |-> FALSE]
    [] order.control = "exit" ->
         LET c == cancel_scope(sm, scope_id)
         IN [sm |-> c.sm, dest |-> c.back_id, raised |-> c.raised]
    [] order.control = "none" ->
         [sm |-> on_node_complete(sm, scope_id), dest |-> scope_id, raised |-> FALSE]

\* _recruit_downstreams_and_recall_if_scope_done; recruit is the order's recruit
\* set in the order it is iterated, as coroutines with their bookkeeping.
RecruitAndRecall(coro, rd, sm, order, recruit, scope_id) ==
  IF check_scope_done(sm, scope_id)
    THEN [rd |-> rd, sm |-> sm, raised |-> FALSE, dropped |-> TRUE]
    ELSE
      LET c == ControlStep(sm, order, coro, scope_id)
          sm2 == IF recruit # <<>> THEN on_recruit(c.sm, c.dest, Len(recruit)) ELSE c.sm
          rd2 == rd \o [i \in 1..Len(recruit) |->
                          Entry(recruit[i].coro, c.dest, recruit[i].cause, recruit[i].rank)]
      IN IF c.raised
           THEN [rd |-> rd, sm |-> c.sm, raised |-> TRUE, dropped |-> FALSE]
           ELSE [rd |-> IF OrderIsNotExit(order)
                          THEN _recall_if_scope_done(rd2, sm2, c.dest)
                          ELSE rd2,
                 sm |-> sm2, raised |-> FALSE, dropped |-> FALSE]

\* The recruit set of an order as coroutines, iterated in the order q.
Recruits(q, cause, rank) ==
  [i \in 1..Len(q) |-> [coro |-> Coro(q[i]), cause |-> cause, rank |-> rank]]

\* _ContextReader.read_context(context, 0) of a Branch: (val, status), where
\* val is the condition's value as bool() sees it and status tells whether a
\* condition is subscribed at all.
Unsubscribed == [val |-> FALSE, status |-> FALSE]
Conditions ==
  {Unsubscribed, [val |-> TRUE, status |-> TRUE], [val |-> FALSE, status |-> TRUE]}

\* A Branch that takes its true side whenever a condition is subscribed.
BranchRecruitOnStatus(n, c) ==
  IF c.status THEN downstreams_true(n) ELSE downstreams_false(n)

\* The recruit set of the order Branch.order builds:
\* "if bool(val) and status: true downstreams, else: false downstreams".
BranchRecruit(n, c) ==
  IF c.val /\ c.status THEN downstreams_true(n) ELSE downstreams_false(n)

\* OrderItem, as far as the scheduler reads it.
OrderItem(uid, source, control) == [uid |-> uid, source |-> source, control |-> control]

SM == [cnt |-> scope_count, tab |-> scope_table]

\* The scheduler state after a control-only order was handled.
Handled(r) ==
  /\ ready_nodes' = r.rd
  /\ scope_count' = r.sm.cnt
  /\ scope_table' = r.sm.tab
  /\ pc' = IF r.raised THEN "raised" ELSE "run"

\* ------------------------------------------------- executor: thread pool
\* Task ids are uuid4 strings; the model numbers them in submission order.
MaxTasks == 3
\* ThreadPoolExecutor(max_workers)
MaxWorkers == 1
TaskIDs == 1..MaxTasks

ExecEvent(task_id, status) == [task_id |-> task_id, status |-> status]

\* A call of the executor's interface and how it ended: the task it was about,
\* the status of the event wait() took, the value returned (cancel) and the
\* exception raised ("none": it returned).
Call(op, task_id, status, ret, raised) ==
  [op |-> op, task |-> task_id, status |-> status, ret |-> ret, raised |-> raised]
NoCall == Call("none", None, "none", FALSE, "none")

\* The tasks whose callable a worker thread has begun to run.
Begun == {t \in TaskIDs : fut_state[t] \in {"running", "finished"}}

\* dict.keys() iterates in insertion order, which is submission order.
KeysInOrder(S) ==
  CHOOSE q \in [1..Cardinality(S) -> S] :
    \A i, j \in 1..Cardinality(S) : i < j => q[i] < q[j]

\* A fresh executor.
PoolIdle ==
  /\ _futures = {}
  /\ _event_queue = <<>>
  /\ fut_state = [t \in TaskIDs |-> "none"]
  /\ pool_down = FALSE
  /\ received = [t \in TaskIDs |-> <<>>]
  /\ cancel_true = {}
  /\ pool_last = NoCall

\* ------------------------------------------------------------ expressions
\* The handles (uids) of the contexts looked at.
UIDs == {1, 2}
\* The largest expression built, in nodes of its tree.
MaxSize == 4

\* Python values: an int, a list of ints, a dict of ints with the keys
\* 0..len-1; "empty" is the sentinel of context.py, and "unbound" stands for a
\* handle that is not a key of Context._data.
IntValue(n) == [t |-> "int", v |-> <<n>>]
ListValue(q) == [t |-> "list", v |-> q]
DictValue(q) == [t |-> "dict", v |-> q]
empty == [t |-> "empty", v |-> <<>>]
unbound == [t |-> "unbound", v |-> <<>>]

\* The outcome of an evaluation: a value returned or an exception raised.
Ok(value) == [ok |-> TRUE, val |-> value, err |-> "none"]
Raise(err) == [ok |-> FALSE, val |-> empty, err |-> err]

\* "try: body except caught: raise raised"
Except(body, caught, raised) == IF ~body.ok /\ body.err \in caught THEN Raise(raised) ELSE body

\* Python's val[index].
Subscript(val, index) ==
  CASE val.t = "list" ->
         IF index.t # "int" THEN Raise("TypeError")
         ELSE IF index.v[1] \in 0..(Len(val.v) - 1)
                THEN Ok(IntValue(val.v[index.v[1] + 1]))
                ELSE Raise("IndexError")
    [] val.t = "dict" ->
         IF index.t # "int" THEN Raise("TypeError")
         ELSE IF index.v[1] \in 0..(Len(val.v) - 1)
                THEN Ok(IntValue(val.v[index.v[1] + 1]))
                ELSE Raise("KeyError")
    [] OTHER -> Raise("TypeError")

\* SimpleDataRef.get(item): item = empty is the call without an item.
get(cell, item) ==
  IF cell = empty THEN Raise("ValueError")
  ELSE IF item # empty THEN Subscript(cell, item)
  ELSE Ok(cell)

\* Context.__getitem__ raises KeyError for the handles outside Bound.
Bound(ctx) == {u \in UIDs : ctx[u] # unbound}

\* A view that takes every handle of the context, asked for or not.
view_all(ctx, uids) == ctx

\* Context.view(uids)
view(ctx, uids) == [u \in UIDs |-> IF u \in uids /\ u \in Bound(ctx) THEN ctx[u] ELSE unbound]

\* An expression is a tree: its class, the uid it reads (RefExpr.uid,
\* VariableExpr._target_uid) or the fid it calls, its constant, its children.
ConstExpr(value) == [op |-> "Const", uid |-> 0, val |-> value, args |-> <<>>]
RefExpr(uid) == [op |-> "Ref", uid |-> uid, val |-> empty, args |-> <<>>]
is_expr(obj) == "op" \in DOMAIN obj
ensure_expr(obj) == IF is_expr(obj) THEN obj ELSE ConstExpr(obj)
VariableGetItemExpr(target_uid, index) ==
  [op |-> "VarGetItem", uid |-> target_uid, val |-> empty, args |-> <<ensure_expr(index)>>]
GetItemExpr(e, index) ==
  [op |-> "GetItem", uid |-> 0, val |-> empty, args |-> <<e, ensure_expr(index)>>]
\* FormulaExpr("1 - x", x=e)
FormulaExpr(e) == [op |-> "Formula", uid |-> 0, val |-> empty, args |-> <<e>>]
\* FunctionExpr(fid, e)
FunctionExpr(fid, e) == [op |-> "Function", uid |-> fid, val |-> empty, args |-> <<e>>]

\* UnionExpr.__init__ keeps its arguments as they are.
Nested(exprs) == exprs

\* UnionExpr.__init__: the alternatives of an argument that is a UnionExpr are
\* spliced in.
RECURSIVE Flatten(_)
Flatten(exprs) ==
  IF exprs = <<>> THEN <<>>
  ELSE (IF Head(exprs).op = "Union" THEN Head(exprs).args ELSE <<Head(exprs)>>)
         \o Flatten(Tail(exprs))

UnionExpr(exprs) == [op |-> "Union", uid |-> 0, val |-> empty, args |-> Flatten(exprs)]

__getitem__(e, index) ==
  IF e.op = "Ref" THEN VariableGetItemExpr(e.uid, index) ELSE GetItemExpr(e, index)
__or__(e, other) == UnionExpr(<<e, ensure_expr(other)>>)
__ror__(e, other) == UnionExpr(<<ensure_expr(other), e>>)

\* The source "1 - x" of the formula, evaluated by Python.
Formula(x) == IF x.t = "int" THEN Ok(IntValue(1 - x.v[1])) ELSE Raise("TypeError")

\* Executor._callable_registry = {1: len}, looked up and called.
Function(fid, a) ==
  IF fid # 1 THEN Raise("KeyError")
  ELSE IF a.t \in {"list", "dict"} THEN Ok(IntValue(Len(a.v))) ELSE Raise("TypeError")

\* The except clause of UnionExpr.eval without ExprEvalError.
RecoverableWithoutEval == {"DataNotFoundError", "DataGetItemError"}

\* The except clause of UnionExpr.eval with ValueError.
RecoverableWithValueError ==
  {"DataNotFoundError", "DataGetItemError", "ExprEvalError", "ValueError"}

\* The except clause of UnionExpr.eval.
Recoverable == {"DataNotFoundError", "DataGetItemError", "ExprEvalError"}

\* eval of every class; UnionLoop is the for loop of UnionExpr.eval from
\* alternative i on, with the number of alternatives it evaluated.
RECURSIVE eval(_, _), UnionLoop(_, _, _)
UnionLoop(exprs, i, ctx) ==
  IF i > Len(exprs) THEN [out |-> Raise("UnionError"), visited |-> Len(exprs)]
  ELSE LET r == eval(exprs[i], ctx)
       IN IF ~r.ok /\ r.err \in Recoverable
            THEN UnionLoop(exprs, i + 1, ctx)
            ELSE [out |-> r, visited |-> i]

eval(e, ctx) ==
  CASE e.op = "Const" -> Ok(e.val)
    [] e.op = "Ref" ->
         Except(IF e.uid \in Bound(ctx) THEN get(ctx[e.uid], empty) ELSE Raise("KeyError"),
                {"KeyError"}, "DataNotFoundError")
    [] e.op = "VarGetItem" ->
         LET index == eval(e.args[1], ctx)
         IN Except(IF ~index.ok THEN index
                   ELSE IF e.uid \in Bound(ctx) THEN get(ctx[e.uid], index.val)
                   ELSE Raise("KeyError"),
                   {"KeyError"}, "DataNotFoundError")
    [] e.op = "GetItem" ->
         LET val == eval(e.args[1], ctx)
             index == eval(e.args[2], ctx)
         IN IF ~val.ok THEN val
            ELSE IF ~index.ok THEN index
            ELSE LET r == Subscript(val.val, index.val)
                 IN IF r.ok THEN r ELSE Raise("DataGetItemError")
    [] e.op = "Union" -> UnionLoop(e.args, 1, ctx).out
    [] e.op = "Formula" ->
         LET x == eval(e.args[1], ctx)
         IN IF ~x.ok THEN x
            ELSE LET r == Formula(x.val) IN IF r.ok THEN r ELSE Raise("ExprEvalError")
    [] e.op = "Function" ->
         LET a == eval(e.args[1], ctx)
         IN IF ~a.ok THEN a
            ELSE LET r == Function(e.uid, a.val) IN IF r.ok THEN r ELSE Raise("ExprEvalError")

\* refs() of the reading classes only, without their children.
refs_own(e) == IF e.op \in {"Ref", "VarGetItem"} THEN {e.uid} ELSE {}

RECURSIVE refs(_)
refs(e) ==
  CASE e.op = "Const" -> {}
    [] e.op = "Ref" -> {e.uid}
    [] e.op = "VarGetItem" -> {e.uid} \cup refs(e.args[1])
    [] OTHER -> UNION {refs(e.args[i]) : i \in DOMAIN e.args}

RECURSIVE Size(_), Sizes(_)
Sizes(exprs) == IF exprs = <<>> THEN 0 ELSE Size(Head(exprs)) + Sizes(Tail(exprs))
Size(e) == 1 + Sizes(e.args)

\* What an evaluation leaves behind, and the operation applied last with its
\* operand.
Evaluated(e, ctx) ==
  IF e.op = "Union" THEN UnionLoop(e.args, 1, ctx) ELSE [out |-> eval(e, ctx), visited |-> 0]
NoResult == [out |-> Raise("none"), visited |-> 0]
Applied(op, operand) == [op |-> op, operand |-> operand]

\* No expression is at hand.
ExprIdle ==
  /\ expr = ConstExpr(empty)
  /\ data = [u \in UIDs |-> unbound]
  /\ result = NoResult
  /\ expr_last = Applied("none", ConstExpr(empty))

\* ------------------------------------------------------ cells and contexts
\* The most cells created.
MaxCells == 3
\* The values cells are given.
CellValues == {empty, IntValue(0), IntValue(1)}

\* A reference to the SimpleDataRef object with the given identity.
DataRef(id) == [t |-> "ref", v |-> <<id>>]

\* A call on a context ("parent" or "view") and its arguments.
CellCall(op, who, uid, uids, value) ==
  [op |-> op, who |-> who, uid |-> uid, uids |-> uids, value |-> value]

\* Context(): no handle is bound.
Context == [u \in UIDs |-> unbound]

\* ctx[uid].get(): the value read through a context's handle.
Read(ctx, uid) == get(_value[ctx[uid].v[1]], empty)

\* No context is at hand.
CellIdle ==
  /\ _data = Context
  /\ _value = <<>>
  /\ viewed = Context
  /\ shared = {}
  /\ cell_last = CellCall("none", "parent", 0, {}, empty)

\* ------------------------------------------------------ callable registry
\* The largest function id looked at.
MaxFid == 3
FIDs == 0..MaxFid

\* Callables: the __name__ of each ("": it has none) and its identity.
Callable(name, obj) == [name |-> name, obj |-> obj]
NoCallable == Callable("", 0)
Callables ==
  {Callable("f", 1), Callable("f", 2), Callable("g", 3), Callable("", 4)}

\* hash(target.__name__)
hash(name) == IF name = "f" THEN 0 ELSE 1

\* The keys of the registry.
Registered(reg) == {f \in DOMAIN reg : reg[f] # NoCallable}

\* "while fid in cls._callable_registry: fid += 1"
RECURSIVE Probe(_, _)
Probe(reg, fid) ==
  IF fid \in Registered(reg) THEN Probe(reg, fid + 1) ELSE fid

\* A register that stores under an explicit fid without looking it up.
register_overwriting(reg, target, fid) ==
  IF fid = None
    THEN IF target.name # ""
           THEN [reg |-> [reg EXCEPT ![Probe(reg, hash(target.name))] = target],
                 ret |-> Probe(reg, hash(target.name)), raised |-> "none"]
           ELSE [reg |-> reg, ret |-> None, raised |-> "ValueError"]
    ELSE [reg |-> [reg EXCEPT ![fid] = target], ret |-> fid, raised |-> "none"]

\* Executor.register(target, fid=fid): the registry it leaves, the fid it
\* returns and the exception it raises ("none": it returned).
register(reg, target, fid) ==
  IF fid = None
    THEN IF target.name # ""
           THEN [reg |-> [reg EXCEPT ![Probe(reg, hash(target.name))] = target],
                 ret |-> Probe(reg, hash(target.name)), raised |-> "none"]
           ELSE [reg |-> reg, ret |-> None, raised |-> "ValueError"]
    ELSE IF fid \in Registered(reg)
           THEN [reg |-> reg, ret |-> None, raised |-> "KeyError"]
           ELSE [reg |-> [reg EXCEPT ![fid] = target], ret |-> fid, raised |-> "none"]

RegCall(target, fid, ret, raised) ==
  [target |-> target, fid |-> fid, ret |-> ret, raised |-> raised]

\* The registry of a fresh process.
RegIdle ==
  /\ _callable_registry = [f \in FIDs |-> NoCallable]
  /\ returned = {}
  /\ reg_last = RegCall(NoCallable, None, None, "none")

\* ------------------------------------------- the status-tracking Graph
\* The nodes of the graph.
GNodes == {"a", "b", "c"}
\* The most input slots the nodes of a graph have together.
MaxSlots == 3

\* An input slot (connection.py): source is the node of the output slot it is
\* connected to ("none": not connected).
InputSlot(source, has_default) == [source |-> source, has_default |-> has_default]

\* A call on the graph, the exception it raised and the statuses the status
\* listener was called with during the call.
DagCall(op, nodes, out, raised, heard) ==
  [op |-> op, nodes |-> nodes, out |-> out, raised |-> raised, heard |-> heard]

\* No graph is at hand.
DagIdle ==
  /\ _input_slots = [n \in GNodes |-> <<>>]
  /\ output_nodes = <<>>
  /\ dag_status = "READY"
  /\ slot_context = {}
  /\ dag_last = DagCall("none", <<>>, <<>>, "none", <<>>)

\* The state in which forward enters its loop, for a graph of G.
InitOf(G) ==
  /\ PoolIdle
  /\ DagIdle
  /\ ExprIdle
  /\ CellIdle
  /\ RegIdle
  /\ graph \in G
  /\ iterlen \in [Repeats -> 0..MaxIter]
  /\ \A n \in Repeats \ RepeatsOf(graph) : iterlen[n] = 0
  /\ max_inflight \in 1..MaxInflight
  /\ pc = "run"
  /\ ready_nodes = [i \in 1..Len(starters(graph)) |-> Entry(Coro(starters(graph)[i]), 0, 0, 0)]
  /\ inflight = {}
  /\ next_task = 1
  /\ scope_count = ScopeManager(Len(starters(graph))).cnt
  /\ scope_table = ScopeManager(Len(starters(graph))).tab
  /\ context = [n \in Nodes |-> 0]
  /\ flags = [i \in DOMAIN receivers |-> FALSE]
  /\ cond = Unsubscribed
  /\ iters = <<>>
  /\ executor_down = FALSE
  /\ shutdown_futures = {}
  /\ acts = [n \in Nodes |-> 0]
  /\ last = NoStep

Init == InitOf(Graphs)

\* No forward is running: the scheduler part of the state while the executor
\* or an expression is looked at on its own.
SchedIdle ==
  /\ graph = "root"
  /\ iterlen = [n \in Repeats |-> 0]
  /\ max_inflight = 1
  /\ pc = "returned"
  /\ ready_nodes = <<>>
  /\ inflight = {}
  /\ next_task = 1
  /\ scope_count = ScopeManager(0).cnt
  /\ scope_table = ScopeManager(0).tab
  /\ context = [n \in Nodes |-> 0]
  /\ flags = [i \in DOMAIN receivers |-> FALSE]
  /\ cond = Unsubscribed
  /\ iters = <<>>
  /\ executor_down = FALSE
  /\ shutdown_futures = {}
  /\ acts = [n \in Nodes |-> 0]
  /\ last = NoStep

\* ----------------------------------------------------------- forward: take
\* "coro, scope_id = ready_nodes.popleft(); order_item = next(coro)" for each
\* kind of node, then the handling of the order.
Taking(kind) ==
  /\ pc = "run"
  /\ CanTake
  /\ Head(ready_nodes).inst = 0
  /\ Kind(Head(ready_nodes).node) = kind

\* Execute.order: an order with a source, submitted to the executor.
AdvanceExecute ==
  /\ Taking("Execute")
  /\ ~executor_down
  /\ LET e == Head(ready_nodes)
     IN /\ inflight' = inflight \cup {[task |-> next_task, node |-> e.node, scope |-> e.scope]}
        /\ last' = Step("submit", e.node, e.scope, next_task, "none", FALSE)
        /\ acts' = [acts EXCEPT ![e.node] = @ + 1]
  /\ next_task' = next_task + 1
  /\ ready_nodes' = Tail(ready_nodes)
  /\ UNCHANGED <<dag_vars, pool_vars, expr_vars, cell_vars, reg_vars, graph, iterlen, max_inflight, cond, executor_down, shutdown_futures, pc, scope_count, scope_table,
                 context, flags, iters>>

\* Execute.order handed to an executor that has been shut down: the pool
\* refuses the work ("cannot schedule new futures after shutdown") and the
\* error leaves forward.
AdvanceExecuteAfterShutdown ==
  /\ Taking("Execute")
  /\ executor_down
  /\ LET e == Head(ready_nodes)
     IN /\ last' = Step("submit_error", e.node, e.scope, 0, "none", FALSE)
        /\ acts' = [acts EXCEPT ![e.node] = @ + 1]
  /\ ready_nodes' = Tail(ready_nodes)
  /\ pc' = "raised"
  /\ UNCHANGED <<dag_vars, pool_vars, expr_vars, cell_vars, reg_vars, graph, iterlen, max_inflight, cond, executor_down, shutdown_futures, inflight, next_task,
                 scope_count, scope_table, context, flags, iters>>

\* Branch.order, read_context having returned c for the condition.
AdvanceBranch(c) ==
  /\ Taking("Branch")
  /\ cond' = c
  /\ LET e == Head(ready_nodes)
         ds == BranchRecruit(e.node, c)
     IN \E q \in Orderings(ds) :
          LET r == RecruitAndRecall(Coro(e.node), Tail(ready_nodes), SM,
                                    OrderItem(e.node, FALSE, "none"),
                                    Recruits(q, 0, 0), e.scope)
          IN /\ Handled(r)
             /\ last' = Step("control", e.node, e.scope, 0, "none", r.dropped)
             /\ acts' = [acts EXCEPT ![e.node] = @ + 1]
  /\ UNCHANGED <<dag_vars, pool_vars, expr_vars, cell_vars, reg_vars, graph, iterlen, max_inflight, executor_down, shutdown_futures, inflight, next_task, context, flags, iters>>

\* Branch.order with a condition that cannot be evaluated: read_context raises
\* SubscribeError out of next(coro), which forward does not catch.
AdvanceBranchError ==
  /\ Taking("Branch")
  /\ LET e == Head(ready_nodes)
     IN last' = Step("node_error", e.node, e.scope, 0, "none", FALSE)
  /\ ready_nodes' = Tail(ready_nodes)
  /\ pc' = "raised"
  /\ UNCHANGED <<dag_vars, pool_vars, expr_vars, cell_vars, reg_vars, graph, iterlen, max_inflight, cond, executor_down, shutdown_futures, inflight, next_task, scope_count,
                 scope_table, context, flags, iters, acts>>

\* Repeat.order: a new Iter over a new iterator, recruited by the seed order.
AdvanceRepeat ==
  /\ Taking("Repeat")
  /\ LET e == Head(ready_nodes)
         it == [node |-> e.node, inst |-> Len(iters) + 1]
         r == RecruitAndRecall(Coro(e.node), Tail(ready_nodes), SM,
                               OrderItem(e.node, FALSE, "none"),
                               <<[coro |-> it, cause |-> 0, rank |-> 0]>>, e.scope)
     IN /\ Handled(r)
        /\ iters' = Append(iters, [parent |-> e.node, pos |-> 0, done |-> FALSE,
                                   n_iter |-> 0, n_stop |-> 0])
        /\ last' = Step("control", e.node, e.scope, 0, "none", r.dropped)
        /\ acts' = [acts EXCEPT ![e.node] = @ + 1]
  /\ UNCHANGED <<dag_vars, pool_vars, expr_vars, cell_vars, reg_vars, graph, iterlen, max_inflight, cond, executor_down, shutdown_futures, inflight, next_task, context, flags>>

\* An Iter.order that reports exhaustion one element early.
ExhaustedEarly(it) == it.pos + 1 >= iterlen[it.parent]

\* "current = next(self._iterator)" raises StopIteration: the iterator of the
\* Iter it has yielded all the elements of the iterable.
Exhausted(it) == it.pos >= iterlen[it.parent]

TakingIter ==
  /\ pc = "run"
  /\ CanTake
  /\ Head(ready_nodes).inst > 0

\* Iter.order when the iterator yields an element: ENTER, recruiting the
\* per-iteration downstreams.
AdvanceIterEnter ==
  /\ TakingIter
  /\ LET e == Head(ready_nodes)
         it == iters[e.inst]
     IN /\ ~it.done
        /\ ~Exhausted(it)
        /\ \E q \in Orderings(downstreams_iter(it.parent)) :
             LET r == RecruitAndRecall([node |-> e.node, inst |-> e.inst],
                                       Tail(ready_nodes), SM,
                                       OrderItem(it.parent, FALSE, "enter"),
                                       Recruits(q, 0, 0), e.scope)
             IN /\ Handled(r)
                /\ iters' = [iters EXCEPT ![e.inst].pos = @ + 1,
                                          ![e.inst].n_iter = IF r.dropped THEN @ ELSE @ + 1]
                /\ last' = Step("iter", e.node, e.scope, e.inst, "enter", r.dropped)
  /\ UNCHANGED <<dag_vars, pool_vars, expr_vars, cell_vars, reg_vars, graph, iterlen, max_inflight, cond, executor_down, shutdown_futures, inflight, next_task, context, flags, acts>>

\* Iter.order when the iterator is exhausted: the post-loop downstreams.
AdvanceIterStop ==
  /\ TakingIter
  /\ LET e == Head(ready_nodes)
         it == iters[e.inst]
     IN /\ ~it.done
        /\ Exhausted(it)
        /\ \E q \in Orderings(downstreams_stop(it.parent)) :
             LET r == RecruitAndRecall([node |-> e.node, inst |-> e.inst],
                                       Tail(ready_nodes), SM,
                                       OrderItem(it.parent, FALSE, "none"),
                                       Recruits(q, 0, 0), e.scope)
             IN /\ Handled(r)
                /\ iters' = [iters EXCEPT ![e.inst].done = TRUE,
                                          ![e.inst].n_stop = IF r.dropped THEN @ ELSE @ + 1]
                /\ last' = Step("iter", e.node, e.scope, e.inst, "none", r.dropped)
  /\ UNCHANGED <<dag_vars, pool_vars, expr_vars, cell_vars, reg_vars, graph, iterlen, max_inflight, cond, executor_down, shutdown_futures, inflight, next_task, context, flags, acts>>

\* next(coro) on a coroutine that has finished: StopIteration, "continue".
AdvanceStopIteration ==
  /\ TakingIter
  /\ LET e == Head(ready_nodes)
     IN /\ iters[e.inst].done
        /\ last' = Step("stop_iteration", e.node, e.scope, e.inst, "none", FALSE)
  /\ ready_nodes' = Tail(ready_nodes)
  /\ UNCHANGED <<dag_vars, pool_vars, expr_vars, cell_vars, reg_vars, graph, iterlen, max_inflight, cond, executor_down, shutdown_futures, pc, inflight, next_task, scope_count,
                 scope_table, context, flags, iters, acts>>

\* Break.order: EXIT, recruiting the downstreams of the Break.
AdvanceBreak ==
  /\ Taking("Break")
  /\ LET e == Head(ready_nodes)
     IN \E q \in Orderings(downstreams(e.node)) :
          LET r == RecruitAndRecall(Coro(e.node), Tail(ready_nodes), SM,
                                    OrderItem(e.node, FALSE, "exit"),
                                    Recruits(q, 0, 0), e.scope)
          IN /\ Handled(r)
             /\ last' = Step("control", e.node, e.scope, 0, "exit", r.dropped)
             /\ acts' = [acts EXCEPT ![e.node] = @ + 1]
  /\ UNCHANGED <<dag_vars, pool_vars, expr_vars, cell_vars, reg_vars, graph, iterlen, max_inflight, cond, executor_down, shutdown_futures, inflight, next_task, context, flags, iters>>

\* all(self.flags)
AllFlags(f) == \A i \in DOMAIN f : f[i]

\* A Join.order that releases on any set flag.
JoinReleasesOnAny(f) == \E i \in DOMAIN f : f[i]

\* Join.order: the downstreams when every flag is set (and the flags are
\* reset), nothing otherwise.
JoinReleases(f) == AllFlags(f)

AdvanceJoin ==
  /\ Taking("Join")
  /\ LET e == Head(ready_nodes)
         ds == IF JoinReleases(flags) THEN downstreams(e.node) ELSE {}
     IN \E q \in Orderings(ds) :
          LET r == RecruitAndRecall(Coro(e.node), Tail(ready_nodes), SM,
                                    OrderItem(e.node, FALSE, "none"),
                                    Recruits(q, 0, 0), e.scope)
          IN /\ Handled(r)
             /\ last' = Step(IF JoinReleases(flags) THEN "join_release" ELSE "join_wait",
                             e.node, e.scope, e.rank, "none", r.dropped)
             /\ acts' = [acts EXCEPT ![e.node] = @ + 1]
  /\ flags' = IF JoinReleases(flags) THEN [i \in DOMAIN flags |-> FALSE] ELSE flags
  /\ UNCHANGED <<dag_vars, pool_vars, expr_vars, cell_vars, reg_vars, graph, iterlen, max_inflight, cond, executor_down, shutdown_futures, inflight, next_task, context, iters>>

\* Join.Receiver.order: set the receiver's flag, recruit the Join.
AdvanceReceiver ==
  /\ Taking("Receiver")
  /\ LET e == Head(ready_nodes)
         f == [flags EXCEPT ![ReceiverIndex(e.node)] = TRUE]
         rank == Cardinality({i \in DOMAIN f : f[i]})
         r == RecruitAndRecall(Coro(e.node), Tail(ready_nodes), SM,
                               OrderItem(e.node, FALSE, "none"),
                               Recruits(<<ReceiverParent(e.node)>>, 0, rank), e.scope)
     IN /\ Handled(r)
        /\ flags' = f
        /\ last' = Step("control", e.node, e.scope, 0, "none", r.dropped)
        /\ acts' = [acts EXCEPT ![e.node] = @ + 1]
  /\ UNCHANGED <<dag_vars, pool_vars, expr_vars, cell_vars, reg_vars, graph, iterlen, max_inflight, cond, executor_down, shutdown_futures, inflight, next_task, context, iters>>

\* ----------------------------------------------------------- forward: wait
\* A forward that waits for an event only once the ready queue is empty.
WaitingWhenIdle ==
  /\ pc = "run"
  /\ ready_nodes = <<>>
  /\ inflight # {}

\* "event = executor.wait()" is reached when the inner loop has stopped and
\* something is in flight.
Waiting ==
  /\ pc = "run"
  /\ ~CanTake
  /\ inflight # {}

\* A forward that leaves the context alone on SUCCESS.
BindResultSkipped(ctx, uid, cell) == ctx

\* A forward that binds a result only while no other handle is bound: of two
\* siblings, the one whose event comes first.
BindResultOfFirst(ctx, uid, cell) ==
  IF \E n \in Nodes \ {uid} : ctx[n] # 0 THEN ctx ELSE [ctx EXCEPT ![uid] = cell]

\* "order_item.context[order_item.uid] = event.value"
BindResult(ctx, uid, cell) == [ctx EXCEPT ![uid] = cell]

\* A SUCCESS event for task t: bind the value cell, then handle the order.
EventSuccess(t) ==
  /\ Waiting
  /\ t \in inflight
  /\ inflight' = inflight \ {t}
  /\ context' = BindResult(context, t.node, t.task)
  /\ \E q \in Orderings(downstreams(t.node)) :
       LET r == RecruitAndRecall(Coro(t.node), ready_nodes, SM,
                                 OrderItem(t.node, TRUE, "none"),
                                 Recruits(q, t.task, 0), t.scope)
       IN /\ Handled(r)
          /\ last' = Step("success", t.node, t.scope, t.task, "none", r.dropped)
  /\ UNCHANGED <<dag_vars, pool_vars, expr_vars, cell_vars, reg_vars, graph, iterlen, max_inflight, cond, executor_down, shutdown_futures, next_task, flags, iters, acts>>

\* An else branch that treats the failure as a cancellation of the scope.
NotSuccessCancelling(rd, sm, scope_id) ==
  LET sm2 == [on_node_complete(sm, scope_id) EXCEPT !.tab[scope_id].cancelled = TRUE]
  IN [rd |-> _recall_if_scope_done(rd, sm2, scope_id), sm |-> sm2,
      raised |-> FALSE, dropped |-> FALSE]

\* The else branch of "if event.is_success()": the scope manager and the
\* ready queue after a FAILED or CANCELLED event of a task of scope_id.
NotSuccess(rd, sm, scope_id) ==
  LET sm2 == on_node_complete(sm, scope_id)
  IN [rd |-> _recall_if_scope_done(rd, sm2, scope_id), sm |-> sm2,
      raised |-> FALSE, dropped |-> FALSE]

\* A FAILED or CANCELLED event for task t.
EventNotSuccess(t, status) ==
  /\ Waiting
  /\ t \in inflight
  /\ inflight' = inflight \ {t}
  /\ Handled(NotSuccess(ready_nodes, SM, t.scope))
  /\ last' = Step(status, t.node, t.scope, t.task, "none", FALSE)
  /\ UNCHANGED <<dag_vars, pool_vars, expr_vars, cell_vars, reg_vars, graph, iterlen, max_inflight, cond, executor_down, shutdown_futures, next_task, context, flags, iters, acts>>

\* executor.shutdown(), called by the user while the forward runs.
Shutdown ==
  /\ pc = "run"
  /\ ~executor_down
  /\ executor_down' = TRUE
  /\ shutdown_futures' = {t.task : t \in inflight}
  /\ last' = Step("shutdown_call", "none", 0, 0, "none", FALSE)
  /\ UNCHANGED <<dag_vars, pool_vars, expr_vars, cell_vars, reg_vars, graph, iterlen, max_inflight, cond, pc, ready_nodes, inflight, next_task,
                 scope_count, scope_table, context, flags, iters, acts>>

\* An executor-level shutdown event (task_id None): forward leaves its loop.
EventShutdown ==
  /\ Waiting
  /\ executor_down
  /\ pc' = "returned"
  /\ last' = Step("shutdown", "none", 0, 0, "none", FALSE)
  /\ UNCHANGED <<dag_vars, pool_vars, expr_vars, cell_vars, reg_vars, graph, iterlen, max_inflight, cond, executor_down, shutdown_futures, ready_nodes, inflight, next_task,
                 scope_count, scope_table, context, flags, iters, acts>>

\* "if len(inflight) == 0: break", then "return context".
Return ==
  /\ pc = "run"
  /\ ~CanTake
  /\ inflight = {}
  /\ pc' = "returned"
  /\ last' = Step("return", "none", 0, 0, "none", FALSE)
  /\ UNCHANGED <<dag_vars, pool_vars, expr_vars, cell_vars, reg_vars, graph, iterlen, max_inflight, cond, executor_down, shutdown_futures, ready_nodes, inflight, next_task,
                 scope_count, scope_table, context, flags, iters, acts>>

\* The steps of a forward whose executor is not shut down.
RunNext ==
  \/ AdvanceExecute
  \/ \E c \in Conditions : AdvanceBranch(c)
  \/ AdvanceBranchError
  \/ AdvanceRepeat
  \/ AdvanceIterEnter
  \/ AdvanceIterStop
  \/ AdvanceStopIteration
  \/ AdvanceBreak
  \/ AdvanceJoin
  \/ AdvanceReceiver
  \/ \E t \in inflight : EventSuccess(t)
  \/ \E t \in inflight, status \in {"failed", "cancelled"} : EventNotSuccess(t, status)
  \/ Return

Next ==
  \/ RunNext
  \/ AdvanceExecuteAfterShutdown
  \/ Shutdown
  \/ EventShutdown

Spec == Init /\ [][Next]_vars

\* The forward keeps running and the executor, which nobody shuts down,
\* delivers an event for every task it was given.
LiveSpec == Init /\ [][RunNext]_vars /\ WF_vars(RunNext)

TypeOK ==
  /\ pc \in {"run", "returned", "raised"}
  /\ Cardinality(inflight) <= MaxInflight
  /\ DOMAIN scope_table = 0..(scope_count - 1)

\* ------------------------------------------------------------------ claims
IsPrefix(a, b) == Len(a) <= Len(b) /\ SubSeq(b, 1, Len(a)) = a

\* The entries a step appended to the ready queue, given how many it popped.
Appended(popped) == SubSeq(ready_nodes', Len(ready_nodes) - popped + 1, Len(ready_nodes'))

NormalReturn == pc = "returned" /\ last.op = "return"

\* The tasks whose SUCCESS recruited an entry of the queue rd.
Causes(rd) == {rd[i].cause : i \in DOMAIN rd} \ {0}

\* The coroutine of Iter instance i, and the scopes its ENTER orders created.
IterCoro(i) == [node |-> iters[i].parent, inst |-> i]
OwnedBy(i) == {s \in DOMAIN scope_table : scope_table[s].recall = IterCoro(i)}

\* A scope of Iter instance i has been cancelled by a Break.
Broken(i) == \E s \in OwnedBy(i) : scope_table[s].cancelled

\* Scope s has an activation on the ready queue or a task in flight.
Live(s) ==
  \/ \E j \in DOMAIN ready_nodes : ready_nodes[j].scope = s
  \/ \E t \in inflight : t.scope = s

\* How many activations of node n are on the ready queue.
Queued(n) ==
  Cardinality({j \in DOMAIN ready_nodes : ready_nodes[j].node = n /\ ready_nodes[j].inst = 0})

\* C1: the number of submitted tasks whose event has not been processed never
\* exceeds max_inflight, and while it has reached max_inflight no step takes
\* anything from the ready queue (the queue only grows at its end).
C1_InflightBounded ==
  /\ [](Cardinality(inflight) <= max_inflight)
  /\ [][Cardinality(inflight) >= max_inflight => IsPrefix(ready_nodes, ready_nodes')]_vars

C1_Witness ==
  /\ Cardinality(inflight) = max_inflight
  /\ ready_nodes # <<>>
  /\ last.op = "submit"

\* C2: the step that processes the SUCCESS event of a task binds the event's
\* cell under the order's uid, replacing what was bound there; the nodes the
\* order recruits are put on the ready queue in that step and in no other, so
\* none of them is activated before the event was processed and the cell bound;
\* submitting the order enqueues nothing.
C2_BoundBeforeRecruits ==
  [][/\ (last'.op = "success" =>
          \E t \in inflight \ inflight' :
             /\ last'.task = t.task
             /\ context'[t.node] = t.task)
     /\ (\A c \in Causes(ready_nodes') \ Causes(ready_nodes) :
          \E t \in inflight \ inflight' :
            /\ t.task = c
            /\ last'.op = "success"
            /\ context'[t.node] = c)
     /\ (last'.op = "submit" => ready_nodes' = Tail(ready_nodes))]_vars

C2_Witness ==
  /\ last.op = "success"
  /\ acts[last.node] >= 2
  /\ context[last.node] = last.task
  /\ \E j \in DOMAIN ready_nodes :
       ready_nodes[j].cause = last.task /\ ready_nodes[j].node \in downstreams(last.node)

\* C3: once a Break has cancelled a scope of a Repeat instance, that instance
\* starts no further iteration: its per-iteration downstreams are not recruited
\* again, whatever events arrive afterwards.
C3_NoIterationAfterBreak ==
  [][\A i \in DOMAIN iters :
       Broken(i) => /\ iters'[i].pos = iters[i].pos
                    /\ iters'[i].n_iter = iters[i].n_iter]_vars

\* C4: an EXIT order handled in a non-root scope S (one not already done) with
\* parent P cancels S and no other scope, and puts every node of its recruit
\* set on the ready queue exactly once, attributed to P: the count of P grows by
\* the number of recruits and the count of S does not change.
C4_ExitCancelsCurrentScope ==
  [][(last'.op = "control" /\ last'.ctl = "exit" /\ ~last'.dropped /\ last'.scope # 0) =>
       LET S == last'.scope
           P == scope_table[S].back_id
           ds == downstreams(last'.node)
           new == Appended(1)
       IN /\ scope_table'[S].cancelled
          /\ DOMAIN scope_table' = DOMAIN scope_table
          /\ \A s \in DOMAIN scope_table \ {S} :
               scope_table'[s].cancelled = scope_table[s].cancelled
          /\ scope_table'[P].count = scope_table[P].count + Cardinality(ds)
          /\ scope_table'[S].count = scope_table[S].count
          /\ \A s \in DOMAIN scope_table \ {S, P} : scope_table'[s] = scope_table[s]
          /\ IsPrefix(Tail(ready_nodes), ready_nodes')
          /\ \A n \in ds :
               Cardinality({j \in DOMAIN new : new[j].node = n /\ new[j].inst = 0}) = 1
          /\ \A j \in DOMAIN new :
               new[j].inst = 0 => new[j].node \in ds /\ new[j].scope = P]_vars

C4_Witness ==
  /\ last.op = "control"
  /\ last.ctl = "exit"
  /\ ~last.dropped
  /\ last.scope # 0
  /\ scope_table[last.scope].cancelled
  /\ \E j \in DOMAIN ready_nodes :
       /\ ready_nodes[j].node \in downstreams(last.node)
       /\ ready_nodes[j].scope = scope_table[last.scope].back_id

\* C5 as stated: when a Repeat was terminated by a Break in one of its
\* iterations, its post-loop downstream has run exactly once by the time the
\* forward returns.
C5_StopRunsOnceAfterBreak ==
  (graph = "break" /\ NormalReturn) =>
    \A i \in DOMAIN iters : Broken(i) => acts["stop"] = 1

\* How many activations of node n are on the queue rd.
QueuedIn(rd, n) ==
  Cardinality({j \in DOMAIN rd : rd[j].node = n /\ rd[j].inst = 0})

\* C5 amended: a Break does not make the post-loop downstreams of the Repeat
\* run: the step that handles the Break recruits none of them, and they are
\* recruited or run only once the Repeat's iterator has been exhausted by a
\* later activation of its Iter.
C5_StopOnlyOnExhaustion ==
  /\ [](graph = "break" =>
          \A i \in DOMAIN iters :
            (Queued("stop") + acts["stop"] >= 1) =>
               (iters[i].pos = iterlen[iters[i].parent] /\ iters[i].done))
  /\ [][(last'.op = "control" /\ last'.ctl = "exit") =>
          QueuedIn(ready_nodes', "stop") = QueuedIn(ready_nodes, "stop")]_vars

C5_Witness ==
  /\ graph = "break"
  /\ NormalReturn
  /\ Len(iters) = 1
  /\ Broken(1)
  /\ acts["brk"] >= 1
  /\ iters[1].pos < iterlen["rep"]
  /\ acts["stop"] = 0

\* C6: a Break inside the inner Repeat cancels only the inner loop's scope; the
\* scope of the outer iteration drains once the downstream of the Break has
\* completed, and the outer Repeat goes on to its next iterations, so that at
\* the return of the forward the outer Repeat has consumed its iterable.
C6_OuterProceedsAfterInnerBreak ==
  (graph = "nested" /\ NormalReturn) =>
    \A i \in DOMAIN iters :
      iters[i].parent = "outer" =>
        /\ iters[i].pos = iterlen["outer"]
        /\ iters[i].done
        /\ \A s \in OwnedBy(i) : ~scope_table[s].cancelled /\ scope_table[s].count = 0

\* The number of times the Join has recruited its downstream.
Releases == acts["mark"] + Queued("mark")

\* C7 as stated: the Join activation recruited by the n-th receiver to arrive in
\* a round is the one that recruits the downstreams, and the activations
\* recruited by the arrivals before it recruit nothing.
C7_NthArrivalReleases ==
  [][(last'.op \in {"join_release", "join_wait"}) =>
       ((last'.op = "join_release") <=> (Head(ready_nodes).rank = Len(receivers)))]_vars

\* C7 amended: the Join recruits its downstreams only after every receiver has
\* been activated since the previous release, and once per such round: every
\* release is preceded by a fresh activation of each receiver, a set flag means
\* its receiver was activated since the last release, and while all flags are
\* set a Join activation is on the ready queue, the first of which to be
\* advanced releases the downstreams and resets the flags.
C7_JoinReleasesOncePerRound ==
  /\ \A i \in DOMAIN receivers :
       /\ Releases <= acts[receivers[i]]
       /\ flags[i] => Releases < acts[receivers[i]]
  /\ AllFlags(flags) => Queued("join") >= 1
  /\ last.op = "join_release" => \A i \in DOMAIN flags : ~flags[i]
  /\ NormalReturn => ~AllFlags(flags)

C7_Witness ==
  /\ last.op = "join_release"
  /\ Releases = 2
  /\ Queued("join") = 1

C9_FailedEventCompletesActivation ==
  /\ [][(last'.op \in {"failed", "cancelled"}) =>
          \E t \in inflight :
            /\ inflight' = inflight \ {t}
            /\ last'.task = t.task
            /\ DOMAIN scope_table' = DOMAIN scope_table
            /\ scope_table'[t.scope] =
                 [scope_table[t.scope] EXCEPT !.count = @ - 1]
            /\ \A s \in DOMAIN scope_table \ {t.scope} : scope_table'[s] = scope_table[s]
            /\ context' = context
            /\ IsPrefix(ready_nodes, ready_nodes')
            /\ \A j \in DOMAIN Appended(0) : Appended(0)[j].inst > 0
            /\ pc' = "run"]_vars
  /\ [](NormalReturn => ready_nodes = <<>> /\ inflight = {})

C9_Witness ==
  /\ last.op \in {"failed", "cancelled"}
  /\ ~scope_table[last.scope].cancelled
  /\ Live(last.scope)
  /\ \E t \in inflight : t.scope = last.scope

\* C10: when advancing an activation raises a node-level error, the scheduler
\* counts the activation as complete (one off its scope's count), cancels no
\* scope and goes on with the other activations: the forward is not aborted.
C10_NodeErrorIsAbsorbed ==
  [][last'.op = "node_error" =>
       /\ pc' = "run"
       /\ scope_table'[last'.scope].count = scope_table[last'.scope].count - 1
       /\ \A s \in DOMAIN scope_table :
            scope_table'[s].cancelled = scope_table[s].cancelled]_vars

\* C11 as stated: every forward eventually returns (left aside the forwards
\* during which the executor is shut down and those that a node-level error
\* cuts short).
C11_ForwardReturns ==
  <>(pc = "returned" \/ executor_down \/ last.op = "node_error")

\* C11 amended: every forward eventually ends, by returning its context or
\* by raising an error; none runs or waits forever.
C11_ForwardEnds == <>(pc # "run")

C11_Witness ==
  /\ pc = "raised"
  /\ graph = "root"
  /\ last.op = "control"
  /\ last.ctl = "exit"
  /\ next_task = 1

\* C12: a forward that has returned either received a shutdown event or left
\* both the ready queue and the in-flight map empty; it does not return with an
\* activation queued or a task outstanding otherwise.
C12_ReturnsOnlyWhenDrained ==
  pc = "returned" =>
    \/ last.op = "shutdown" /\ executor_down
    \/ ready_nodes = <<>> /\ inflight = {}

C12_Witness ==
  /\ pc = "returned"
  /\ last.op = "return"
  /\ next_task >= 3
  /\ ~executor_down

\* C13: after a forward has returned (not through a shutdown event) the count
\* of the root scope is zero.
C13_RootCountZeroAfterReturn ==
  NormalReturn => scope_table[0].count = 0

\* C16: a forward whose executor is shut down while tasks are in flight does
\* not end by raising, whatever the CANCELLED events put back on the ready
\* queue (on a graph without Branch or Break, where no node raises).
C16_ShutdownReturns ==
  (graph = "join" /\ executor_down /\ shutdown_futures # {}) => pc # "raised"


\* ------------------------------------------------- the thread-pool executor
\* submit(): a fresh task id, and a future of the pool kept under it; a pool
\* that was shut down refuses the future (RuntimeError).
submit ==
  /\ \E t \in TaskIDs : fut_state[t] = "none"
  /\ LET task_id == CHOOSE t \in TaskIDs :
                      fut_state[t] = "none" /\ \A u \in 1..(t - 1) : fut_state[u] # "none"
     IN IF pool_down
          THEN /\ pool_last' = Call("submit", task_id, "none", FALSE, "RuntimeError")
               /\ UNCHANGED <<_futures, fut_state>>
          ELSE /\ fut_state' = [fut_state EXCEPT ![task_id] = "pending"]
               /\ _futures' = _futures \cup {task_id}
               /\ pool_last' = Call("submit", task_id, "none", FALSE, "none")
  /\ UNCHANGED <<dag_vars, sched_vars, expr_vars, cell_vars, reg_vars, _event_queue, pool_down, received, cancel_true>>

\* A free worker thread takes a pending future and begins _worker.
WorkerStart(t) ==
  /\ fut_state[t] = "pending"
  /\ Cardinality({u \in TaskIDs : fut_state[u] = "running"}) < MaxWorkers
  /\ fut_state' = [fut_state EXCEPT ![t] = "running"]
  /\ UNCHANGED <<dag_vars, sched_vars, expr_vars, cell_vars, reg_vars, _futures, _event_queue, pool_down, received, cancel_true, pool_last>>

\* _worker ends: the callable returned (SUCCESS) or raised (FAILED), and the
\* event is put on the queue.
_worker(t, status) ==
  /\ fut_state[t] = "running"
  /\ fut_state' = [fut_state EXCEPT ![t] = "finished"]
  /\ _event_queue' = Append(_event_queue, ExecEvent(t, status))
  /\ UNCHANGED <<dag_vars, sched_vars, expr_vars, cell_vars, reg_vars, _futures, pool_down, received, cancel_true, pool_last>>

\* wait(): the next event of the queue; the event of a task removes the task
\* from _futures with dict.pop, which raises KeyError for a missing key.
wait ==
  /\ _event_queue # <<>>
  /\ LET event == Head(_event_queue)
     IN /\ _event_queue' = Tail(_event_queue)
        /\ IF event.status \in {"success", "failed", "cancelled"} /\ event.task_id # None
             THEN IF event.task_id \in _futures
                    THEN /\ _futures' = _futures \ {event.task_id}
                         /\ received' = [received EXCEPT ![event.task_id] = Append(@, event.status)]
                         /\ pool_last' = Call("wait", event.task_id, event.status, FALSE, "none")
                    ELSE /\ pool_last' = Call("wait", event.task_id, event.status, FALSE, "KeyError")
                         /\ UNCHANGED <<_futures, received>>
             ELSE /\ pool_last' = Call("wait", event.task_id, event.status, FALSE, "none")
                  /\ UNCHANGED <<_futures, received>>
  /\ UNCHANGED <<dag_vars, sched_vars, expr_vars, cell_vars, reg_vars, fut_state, pool_down, cancel_true>>

\* cancel(task_id): the future is popped from _futures; Future.cancel() is
\* true for a future that has not begun (or is cancelled already), and then a
\* CANCELLED event is put on the queue.
cancel(task_id) ==
  /\ fut_state[task_id] # "none"
  /\ IF task_id \notin _futures
       THEN /\ pool_last' = Call("cancel", task_id, "none", FALSE, "none")
            /\ UNCHANGED <<_futures, fut_state, _event_queue, cancel_true>>
       ELSE /\ _futures' = _futures \ {task_id}
            /\ IF fut_state[task_id] \in {"pending", "cancelled"}
                 THEN /\ fut_state' = [fut_state EXCEPT ![task_id] = "cancelled"]
                      /\ _event_queue' = Append(_event_queue, ExecEvent(task_id, "cancelled"))
                      /\ cancel_true' = cancel_true \cup {task_id}
                      /\ pool_last' = Call("cancel", task_id, "none", TRUE, "none")
                 ELSE /\ pool_last' = Call("cancel", task_id, "none", FALSE, "none")
                      /\ UNCHANGED <<fut_state, _event_queue, cancel_true>>
  /\ UNCHANGED <<dag_vars, sched_vars, expr_vars, cell_vars, reg_vars, pool_down, received>>

\* shutdown(): the pool stops and cancels the futures that have not begun,
\* a CANCELLED event is put for every key of _futures, then SHUTDOWN.
shutdown ==
  /\ ~pool_down
  /\ pool_down' = TRUE
  /\ fut_state' = [t \in TaskIDs |-> IF fut_state[t] = "pending" THEN "cancelled" ELSE fut_state[t]]
  /\ _event_queue' =
       _event_queue
         \o [i \in 1..Cardinality(_futures) |-> ExecEvent(KeysInOrder(_futures)[i], "cancelled")]
         \o <<ExecEvent(None, "shutdown")>>
  /\ pool_last' = Call("shutdown", None, "none", FALSE, "none")
  /\ UNCHANGED <<dag_vars, sched_vars, expr_vars, cell_vars, reg_vars, _futures, received, cancel_true>>

PoolInit == SchedIdle /\ PoolIdle /\ DagIdle /\ ExprIdle /\ CellIdle /\ RegIdle

PoolNext ==
  \/ submit
  \/ \E t \in TaskIDs : WorkerStart(t)
  \/ \E t \in TaskIDs, status \in {"success", "failed"} : _worker(t, status)
  \/ wait
  \/ \E t \in TaskIDs : cancel(t)
  \/ shutdown

PoolSpec == PoolInit /\ [][PoolNext]_vars

\* C14: wait() never fails on the event of a task, and returns at most one
\* event for each task.
C14_OneEventPerTask ==
  /\ pool_last.raised # "KeyError"
  /\ \A t \in TaskIDs : Len(received[t]) <= 1

\* C15: a task whose cancel() returned true never begins, and the wait() that
\* takes its event returns it, with status CANCELLED.
C15_CancelBeforeStart ==
  \A t \in cancel_true :
    /\ t \notin Begun
    /\ (pool_last.op = "wait" /\ pool_last.task = t)
         => (pool_last.raised = "none" /\ pool_last.status = "cancelled")


\* -------------------------------------------------------------- expressions
Cells == {empty, IntValue(0), ListValue(<<1, 0>>), DictValue(<<1>>)}
Contexts == [UIDs -> Cells \cup {unbound}]
Atoms == {ConstExpr(IntValue(0)), ConstExpr(IntValue(1))} \cup {RefExpr(u) : u \in UIDs}
\* The right operands of |.
Operands ==
  {ConstExpr(IntValue(1)), RefExpr(1), RefExpr(2), UnionExpr(<<RefExpr(1), RefExpr(2)>>)}

ExprInit ==
  /\ SchedIdle
  /\ PoolIdle
  /\ DagIdle
  /\ CellIdle
  /\ RegIdle
  /\ expr \in Atoms \cup {UnionExpr(<<>>)}
  /\ data \in Contexts
  /\ result = NoResult
  /\ expr_last = Applied("new", expr)

Built(e, op, operand) ==
  /\ expr' = e
  /\ result' = NoResult
  /\ expr_last' = Applied(op, operand)
  /\ UNCHANGED <<dag_vars, sched_vars, pool_vars, cell_vars, reg_vars, data>>

\* expr | other
Or(other) ==
  /\ Size(__or__(expr, other)) <= MaxSize
  /\ Built(__or__(expr, other), "or", ensure_expr(other))
\* value | expr
Ror(value) ==
  /\ Size(__ror__(expr, value)) <= MaxSize
  /\ Built(__ror__(expr, value), "ror", ensure_expr(value))
\* expr[index]
GetItem(index) ==
  /\ Size(__getitem__(expr, index)) <= MaxSize
  /\ Built(__getitem__(expr, index), "getitem", ensure_expr(index))
\* FormulaExpr("1 - x", x=expr)
WrapFormula ==
  /\ Size(expr) < MaxSize
  /\ Built(FormulaExpr(expr), "formula", expr)
\* FunctionExpr(fid, expr)
WrapFunction(fid) ==
  /\ Size(expr) < MaxSize
  /\ Built(FunctionExpr(fid, expr), "function", expr)

\* expr.eval(ctx)
Eval ==
  /\ result' = Evaluated(expr, data)
  /\ expr_last' = Applied("eval", expr)
  /\ UNCHANGED <<dag_vars, sched_vars, pool_vars, cell_vars, reg_vars, expr, data>>

\* expr.eval(ctx.view(expr.refs())), as the worker of a task does
EvalView ==
  /\ result' = Evaluated(expr, view(data, refs(expr)))
  /\ expr_last' = Applied("eval_view", expr)
  /\ UNCHANGED <<dag_vars, sched_vars, pool_vars, cell_vars, reg_vars, expr, data>>

ExprNext ==
  \/ \E other \in Operands : Or(other)
  \/ \E value \in {IntValue(0)} : Or(value)
  \/ \E value \in {IntValue(0)} : Ror(value)
  \/ \E index \in {IntValue(0), IntValue(1)} : GetItem(index)
  \/ \E index \in {RefExpr(2)} : GetItem(index)
  \/ WrapFormula
  \/ \E fid \in {1, 2} : WrapFunction(fid)
  \/ Eval
  \/ EvalView

ExprSpec == ExprInit /\ [][ExprNext]_vars


\* What each alternative of a union evaluates to on its own, and the first
\* alternative that does not raise DataNotFoundError, DataGetItemError or
\* ExprEvalError (0: every alternative raises one of them).
Outcomes(u, ctx) == [i \in DOMAIN u.args |-> eval(u.args[i], ctx)]
RaisesRecoverable(o) ==
  ~o.ok /\ o.err \in {"DataNotFoundError", "DataGetItemError", "ExprEvalError"}
FirstOther(u, ctx) ==
  LET others == {i \in DOMAIN u.args : ~RaisesRecoverable(Outcomes(u, ctx)[i])}
  IN IF others = {} THEN 0 ELSE CHOOSE i \in others : \A j \in others : i <= j
UnionEvaluated == expr_last.op = "eval" /\ expr.op = "Union"

\* C17: the eval of a union returns the value of the first alternative that
\* does not raise DataNotFoundError, DataGetItemError or ExprEvalError, and
\* raises UnionError when every alternative raises one of them (also when
\* there is no alternative).
C17_UnionFirstValue ==
  UnionEvaluated =>
    LET m == FirstOther(expr, data)
    IN /\ m = 0 => result.out = Raise("UnionError")
       /\ (m # 0 /\ Outcomes(expr, data)[m].ok) => result.out = Outcomes(expr, data)[m]

\* A union was evaluated whose first alternative raised ExprEvalError and
\* whose second gave the value.
C17_Witness ==
  /\ UnionEvaluated
  /\ Len(expr.args) >= 2
  /\ Outcomes(expr, data)[1] = Raise("ExprEvalError")
  /\ result.out.ok
  /\ result.visited = 2

\* C18: an alternative of a union that raises any other error ends the eval
\* with that error, and no later alternative is evaluated.
C18_OtherErrorsPropagate ==
  UnionEvaluated =>
    LET m == FirstOther(expr, data)
    IN (m # 0 /\ ~Outcomes(expr, data)[m].ok)
         => (result.out = Outcomes(expr, data)[m] /\ result.visited = m)

\* A union was evaluated whose alternative read a bound cell that is empty,
\* with an alternative after it that has a value.
C18_Witness ==
  /\ UnionEvaluated
  /\ result.out = Raise("ValueError")
  /\ result.visited < Len(expr.args)
  /\ Outcomes(expr, data)[Len(expr.args)].ok

\* The alternatives an operand of | contributes.
Alternatives(e) == IF e.op = "Union" THEN e.args ELSE <<e>>

\* C19: for an expression a that was built and all b, c, (a | b) | c and
\* a | (b | c) hold the same flat list of alternatives, a's then b's then c's,
\* and evaluate to the same value or error.
C19_OrFlattens ==
  expr_last.op \notin {"eval", "eval_view"} => \A b, c \in Operands :
    LET left == __or__(__or__(expr, b), c)
        right == __or__(expr, __or__(b, c))
    IN /\ left.args = right.args
       /\ left.args = Alternatives(expr) \o Alternatives(b) \o Alternatives(c)
       /\ \A i \in DOMAIN left.args : left.args[i].op # "Union"
       /\ Evaluated(left, data).out = Evaluated(right, data).out

\* a | (b | c) was built and holds three alternatives.
C19_Witness ==
  /\ expr_last.op = "or"
  /\ expr_last.operand.op = "Union"
  /\ Len(expr_last.operand.args) = 2
  /\ Len(expr.args) = 3
  /\ expr.args[1].op # "Union"

\* C20: evaluating an expression against ctx.view(e.refs()) gives the value,
\* or the error, that evaluating it against ctx gives.
C20_ViewOfRefs ==
  expr_last.op = "eval_view" => result.out = eval(expr, data)

\* An expression with an indexed read was evaluated against a view that left a
\* bound handle out, and gave a value.
C20_Witness ==
  /\ expr_last.op = "eval_view"
  /\ refs(expr) # {}
  /\ Bound(data) \ refs(expr) # {}
  /\ expr.op \in {"Union", "GetItem", "Formula", "Function"}
  /\ result.out.ok


\* ------------------------------------------------------- cells and contexts
CellInit ==
  /\ SchedIdle
  /\ PoolIdle
  /\ DagIdle
  /\ ExprIdle
  /\ RegIdle
  /\ _data = Context
  /\ _value = <<>>
  /\ viewed = Context
  /\ shared = {}
  /\ cell_last = CellCall("new", "parent", 0, {}, empty)

\* A __setitem__ that stores the value in the cell the handle is bound to, and
\* binds a new cell only under a handle that has none.
setitem_in_place(who, uid, value) ==
  /\ IF uid \in Bound(IF who = "parent" THEN _data ELSE viewed)
       THEN /\ _value' =
                 [_value EXCEPT ![(IF who = "parent" THEN _data ELSE viewed)[uid].v[1]] = value]
            /\ UNCHANGED <<_data, viewed>>
       ELSE /\ Len(_value) < MaxCells
            /\ _value' = Append(_value, value)
            /\ IF who = "parent"
                 THEN /\ _data' = [_data EXCEPT ![uid] = DataRef(Len(_value) + 1)]
                      /\ UNCHANGED viewed
                 ELSE /\ viewed' = [viewed EXCEPT ![uid] = DataRef(Len(_value) + 1)]
                      /\ UNCHANGED _data
  /\ shared' = shared \ {uid}
  /\ cell_last' = [op |-> "setitem", who |-> who, uid |-> uid, uids |-> {}, value |-> value]
  /\ UNCHANGED <<dag_vars, sched_vars, pool_vars, expr_vars, reg_vars>>

\* "ctx[uid] = ctx.new(value)" on the parent or on the view: Context.new makes
\* a cell, Context.__setitem__ binds it.
__setitem__(who, uid, value) ==
  /\ Len(_value) < MaxCells
  /\ _value' = Append(_value, value)
  /\ IF who = "parent"
       THEN /\ _data' = [_data EXCEPT ![uid] = DataRef(Len(_value) + 1)]
            /\ UNCHANGED viewed
       ELSE /\ viewed' = [viewed EXCEPT ![uid] = DataRef(Len(_value) + 1)]
            /\ UNCHANGED _data
  /\ shared' = shared \ {uid}
  /\ cell_last' = CellCall("setitem", who, uid, {}, value)
  /\ UNCHANGED <<dag_vars, sched_vars, pool_vars, expr_vars, reg_vars>>

\* "view = ctx.view(uids)"
View(uids) ==
  /\ viewed' = view(_data, uids)
  /\ shared' = Bound(view(_data, uids))
  /\ cell_last' = CellCall("view", "parent", 0, uids, empty)
  /\ UNCHANGED <<dag_vars, sched_vars, pool_vars, expr_vars, reg_vars, _data, _value>>

\* "ctx[uid].set(value)" on the parent or on the view: SimpleDataRef.set.
set(who, uid, value) ==
  /\ uid \in Bound(IF who = "parent" THEN _data ELSE viewed)
  /\ _value' =
       [_value EXCEPT ![(IF who = "parent" THEN _data ELSE viewed)[uid].v[1]] = value]
  /\ cell_last' = CellCall("set", who, uid, {}, value)
  /\ UNCHANGED <<dag_vars, sched_vars, pool_vars, expr_vars, reg_vars, _data, viewed, shared>>

CellNext ==
  \/ \E who \in {"parent", "view"}, uid \in UIDs, value \in CellValues :
       __setitem__(who, uid, value)
  \/ \E uids \in SUBSET UIDs : View(uids)
  \/ \E who \in {"parent", "view"}, uid \in UIDs, value \in CellValues :
       set(who, uid, value)

CellSpec == CellInit /\ [][CellNext]_vars

\* C21: the context view(S) returns binds exactly the handles of S the parent
\* binds, each to the very cell the parent holds, the handles of S the parent
\* lacks being left out without an error; and a value set through the handle
\* of either context, while both still hold the cell view() copied, is the
\* value read through the handle of both.
C21_ViewSharesCells ==
  /\ cell_last.op = "view"
       => /\ Bound(viewed) = cell_last.uids \cap Bound(_data)
          /\ \A u \in Bound(viewed) : viewed[u] = _data[u]
  /\ (cell_last.op = "set" /\ cell_last.uid \in shared)
       => /\ Read(_data, cell_last.uid) = get(cell_last.value, empty)
          /\ Read(viewed, cell_last.uid) = get(cell_last.value, empty)

\* A value was set through the view's handle and is read through the parent's,
\* and the view lacks a handle of the parent.
C21_Witness ==
  /\ cell_last.op = "set"
  /\ cell_last.who = "view"
  /\ cell_last.uid \in shared
  /\ cell_last.value = IntValue(1)
  /\ Read(_data, cell_last.uid) = Ok(IntValue(1))
  /\ Bound(viewed) # Bound(_data)

\* -------------------------------------------------------- indexed reads
\* The subscript of an indexed read fails although its target has a value: the
\* key is missing from it or the index is out of its range.
IndexFails(e, ctx) ==
  LET val == IF e.op = "VarGetItem"
               THEN (IF e.uid \in Bound(ctx) THEN get(ctx[e.uid], empty) ELSE Raise("KeyError"))
               ELSE eval(e.args[1], ctx)
      index == IF e.op = "VarGetItem" THEN eval(e.args[1], ctx) ELSE eval(e.args[2], ctx)
  IN /\ val.ok
     /\ index.ok
     /\ Subscript(val.val, index.val).err \in {"KeyError", "IndexError"}

\* C22: an indexed read whose target is bound and set, and whose subscript
\* fails on a missing key or an index out of range, raises DataGetItemError,
\* in the handle-indexed form node[k] and in the general get-item form alike.
C22_IndexFailureIsDataGetItem ==
  (/\ expr_last.op = "eval"
   /\ expr.op \in {"VarGetItem", "GetItem"}
   /\ IndexFails(expr, data))
    => result.out = Raise("DataGetItemError")

\* ------------------------------------------------------ Repeat and Branch
\* C23: when an Iter yields the order of an iteration, which carries the
\* current element as its release value, forward binds a cell for it under the
\* handle of the Repeat node (order.uid) in handling the order, so that the
\* per-iteration downstreams it recruits read the element under that handle.
C23_ReleaseBoundBeforeHandling ==
  [][(last'.op = "iter" /\ last'.ctl = "enter" /\ ~last'.dropped)
       => context'[last'.node] # 0]_vars

\* The node activations among the entries a step appended to the ready queue.
RecruitedBy(popped) ==
  {Appended(popped)[j].node :
     j \in {i \in DOMAIN Appended(popped) : Appended(popped)[i].inst = 0}}

\* C24: an activation of a Branch produces exactly one order, which carries no
\* work for the executor and no flow control, and recruits exactly the true
\* downstreams when a condition is subscribed and truthy, exactly the false
\* downstreams otherwise (the case of no condition included); no node of the
\* side not taken enters the ready queue in that step.
C24_BranchRecruitsOneSide ==
  [][(last'.op = "control" /\ Kind(last'.node) = "Branch") =>
       LET n == last'.node
           taken == IF cond'.status /\ cond'.val
                      THEN downstreams_true(n) ELSE downstreams_false(n)
       IN /\ acts'[n] = acts[n] + 1
          /\ \A m \in Nodes \ {n} : acts'[m] = acts[m]
          /\ last'.ctl = "none"
          /\ inflight' = inflight /\ next_task' = next_task /\ context' = context
          /\ IsPrefix(Tail(ready_nodes), ready_nodes')
          /\ RecruitedBy(1) = IF last'.dropped THEN {} ELSE taken
          /\ \A m \in RecruitedBy(1) :
               Cardinality({j \in DOMAIN Appended(1) :
                              Appended(1)[j].node = m /\ Appended(1)[j].inst = 0}) = 1
          /\ \A j \in DOMAIN Appended(1) :
               Appended(1)[j].inst = 0 => Appended(1)[j].scope = last'.scope]_vars

\* A Branch without a condition was activated a second time and recruited
\* nothing, while a node of its true side waits on the ready queue.
C24_Witness ==
  /\ last.op = "control"
  /\ Kind(last.node) = "Branch"
  /\ ~last.dropped
  /\ cond = Unsubscribed
  /\ acts[last.node] = 2
  /\ \E j \in DOMAIN ready_nodes : ready_nodes[j].node \in downstreams_true(last.node)
  /\ downstreams_true(last.node) # {}

\* ------------------------------------------------------- callable registry
RegInit ==
  /\ SchedIdle
  /\ PoolIdle
  /\ DagIdle
  /\ ExprIdle
  /\ CellIdle
  /\ RegIdle

\* "fid = Executor.register(target, fid=fid)"; fid = None is the call without
\* an explicit fid.
RegisterCall(target, fid) ==
  /\ (fid = None /\ target.name # "")
       => Probe(_callable_registry, hash(target.name)) <= MaxFid
  /\ LET r == register(_callable_registry, target, fid)
     IN /\ _callable_registry' = r.reg
        /\ returned' = IF r.raised = "none" THEN returned \cup {<<r.ret, target>>}
                       ELSE returned
        /\ reg_last' = RegCall(target, fid, r.ret, r.raised)
  /\ UNCHANGED <<dag_vars, sched_vars, pool_vars, expr_vars, cell_vars>>

RegNext == \E target \in Callables, fid \in FIDs \cup {None} : RegisterCall(target, fid)

RegSpec == RegInit /\ [][RegNext]_vars

\* C27: every fid a register call returned maps to the callable of that call
\* ever after; a call without an explicit fid returns a fid that was no key of
\* the registry before it; a call with an explicit fid that is a key of the
\* registry raises and leaves the registry as it was.
C27_RegistrationsPermanent ==
  /\ [](\A p \in returned : _callable_registry[p[1]] = p[2])
  /\ [][/\ (reg_last'.fid = None /\ reg_last'.raised = "none")
             => reg_last'.ret \notin Registered(_callable_registry)
        /\ (reg_last'.fid # None /\ reg_last'.fid \in Registered(_callable_registry))
             => /\ reg_last'.raised = "KeyError"
                /\ _callable_registry' = _callable_registry]_vars

\* An explicit fid in use was refused, after a call without a fid had to step
\* past the hash of the name to find a free one.
C27_Witness ==
  /\ reg_last.raised = "KeyError"
  /\ reg_last.target # _callable_registry[reg_last.fid]
  /\ \E p \in returned : p[1] # hash(p[2].name) /\ p[1] = reg_last.fid
  /\ Cardinality(returned) >= 3

\* ------------------------------------------------------ the cyclic graph
\* The most orders a node of the cyclic graph is followed for.
MaxActs == 4

CycleInit == InitOf({"cycle"})

\* forward on the cyclic graph, the executor running every task to an end.
AdvanceExecuteAgain ==
  /\ \A n \in Nodes : acts[n] < MaxActs
  /\ AdvanceExecute

CycleNext ==
  \/ AdvanceExecuteAgain
  \/ \E c \in Conditions : AdvanceBranch(c)
  \/ \E t \in inflight : EventSuccess(t)
  \/ \E t \in inflight, status \in {"failed", "cancelled"} : EventNotSuccess(t, status)
  \/ Return

CycleSpec == CycleInit /\ [][CycleNext]_vars

\* The nodes a step put on the ready queue.
Recruited ==
  RecruitedBy(IF last'.op \in {"success", "failed", "cancelled"} THEN 0 ELSE 1)

\* C26: a step of forward in which an order recruits a node that is on the
\* recruitment path already (no loop scope in between: the node has produced an
\* order before) ends the forward with CircularRecruitmentError instead of
\* putting the node on the ready queue once more.
C26_CircularRecruitmentAborts ==
  [][(/\ graph = "cycle"
      /\ last'.op = "control"
      /\ Kind(last'.node) = "Branch"
      /\ ~last'.dropped
      /\ \E m \in BranchRecruit(last'.node, cond') : acts'[m] >= 1)
       => (pc' = "raised" /\ Recruited = {})]_vars

\* ------------------------------------------------------------ scope counts
\* The child scopes of s that are still live: not cancelled, and not drained
\* (a drained scope has had its recall enqueued).
LiveChildren(s) ==
  {c \in DOMAIN scope_table :
     /\ scope_table[c].back_id = s
     /\ ~scope_table[c].cancelled
     /\ scope_table[c].count > 0}

\* C28: between two steps of a forward, the count of every scope that is not
\* cancelled is the number of ready-queue entries attributed to it, plus the
\* number of tasks in flight attributed to it, plus the number of its child
\* scopes that are still live.
C28_ScopeCountAccounts ==
  pc = "run" =>
    \A s \in DOMAIN scope_table :
      ~scope_table[s].cancelled =>
        scope_table[s].count =
          Cardinality({j \in DOMAIN ready_nodes : ready_nodes[j].scope = s})
          + Cardinality({t \in inflight : t.scope = s})
          + Cardinality(LiveChildren(s))

\* The scope in which the order or event handled in this step left its
\* recruits and had the drain check made: the scope entered by ENTER, the
\* parent of the scope left by EXIT, else the scope of the activation.
Dest ==
  IF last'.ctl = "exit" THEN scope_table[last'.scope].back_id
  ELSE IF last'.ctl = "enter" THEN scope_count
  ELSE last'.scope

\* The entries this step appended to the ready queue.
Grown == Appended(IF last'.op \in {"success", "failed", "cancelled"} THEN 0 ELSE 1)

\* This step enqueued the recall of scope s.
RecallEnqueued(s) ==
  /\ last'.op \in {"control", "iter", "join_release", "join_wait",
                   "success", "failed", "cancelled"}
  /\ ~last'.dropped
  /\ Dest = s
  /\ s \in DOMAIN scope_table'
  /\ Grown # <<>>
  /\ Grown[Len(Grown)].inst > 0
  /\ Grown[Len(Grown)].inst = scope_table'[s].recall.inst
  /\ Grown[Len(Grown)].node = scope_table'[s].recall.node

\* C29: the recall of a scope created by ENTER and not cancelled is enqueued
\* in the step in which its count becomes zero (the ENTER step itself when the
\* order recruits nothing) and in no other step, hence once and never while
\* the count is positive; the entry is attributed to the parent scope; and a
\* count that has become zero stays zero.
C29_RecallOnceWhenDrained ==
  [][\A s \in DOMAIN scope_table' :
       (~scope_table'[s].cancelled /\ scope_table'[s].recall # NoCoro) =>
         LET fresh == s \notin DOMAIN scope_table
             drains == scope_table'[s].count = 0
                         /\ (fresh \/ scope_table[s].count > 0)
         IN /\ RecallEnqueued(s) <=> drains
            /\ RecallEnqueued(s) =>
                 Grown[Len(Grown)].scope = scope_table'[s].back_id
            /\ (~fresh /\ scope_table[s].count = 0) => scope_table'[s].count = 0
            /\ scope_table'[s].count >= 0]_vars

\* C30: no step enqueues the recall of a scope that an EXIT order has
\* cancelled, whatever event is handled and whatever its count becomes.
C30_NoRecallAfterCancel ==
  [][\A s \in DOMAIN scope_table :
       scope_table[s].cancelled => ~RecallEnqueued(s)]_vars

\* ------------------------------------------------- a loop inside a loop
DeepInit == InitOf({"deep"})

\* forward on the graph "deep", the executor delivering the event of every
\* task.
DeepNext ==
  \/ AdvanceExecute
  \/ AdvanceRepeat
  \/ AdvanceIterEnter
  \/ AdvanceIterStop
  \/ AdvanceStopIteration
  \/ AdvanceBreak
  \/ \E t \in inflight : EventSuccess(t)
  \/ \E t \in inflight, status \in {"failed", "cancelled"} : EventNotSuccess(t, status)
  \/ Return

DeepSpec == DeepInit /\ [][DeepNext]_vars

\* ----------------------------------------------------- sibling determinism
SiblingInit == InitOf(Graphs \cup {"race"})

\* forward with an executor that runs every task to a SUCCESS, completing the
\* tasks in flight in any order.
SiblingNext ==
  \/ AdvanceExecute
  \/ \E c \in Conditions : AdvanceBranch(c)
  \/ AdvanceBranchError
  \/ AdvanceRepeat
  \/ AdvanceIterEnter
  \/ AdvanceIterStop
  \/ AdvanceBreak
  \/ AdvanceJoin
  \/ AdvanceReceiver
  \/ \E t \in inflight : EventSuccess(t)
  \/ Return

SiblingSpec == SiblingInit /\ [][SiblingNext]_vars

\* Every node a node can recruit.
Below(n) ==
  downstreams(n) \cup downstreams_true(n) \cup downstreams_false(n)

\* Graph g has two siblings of an iteration of which one recruits a Break and
\* the other recruits work: the Break cancels the scope they share, and the
\* order of the other is handled or dropped as its event comes before the
\* Break or after it.
BreakRaces(g) ==
  \E r \in RepeatsOf(g) : \E a, b \in downstreams_iter(r) :
    /\ a # b
    /\ \E k \in Below(a) : Kind(k) = "Break"
    /\ \E x \in Below(b) : Kind(x) = "Execute"

\* The handles bound when the forward on graph g returns, as the graph and the
\* lengths of its iterables give them; for the graph "race", those bound when
\* rs completes before rw (rx is left unbound when rw completes first).  The
\* callable of an Execute node without dataflow returns the same value whenever
\* it runs, so the handles bound give the final context as handle -> value.
FinalHandles(g, il) ==
  CASE g = "break" -> IF il["rep"] = 0 THEN {"stop"} ELSE {"work", "side"}
    [] g = "nested" -> IF il["outer"] > 0 /\ il["inner"] > 0 THEN {"iafter"} ELSE {}
    [] g = "join" -> IF il["loop"] = 0 THEN {"fin"} ELSE {"f1", "f2", "mark", "fin"}
    [] g = "race" -> IF il["rr"] = 0 THEN {} ELSE {"rw", "rs", "rx"}
    [] OTHER -> {}

ExitHandled ==
  /\ last'.op = "control"
  /\ last'.ctl = "exit"
  /\ ~last'.dropped
  /\ pc' = "run"

\* The step handled the event of a task whose scope had been cancelled.
LateEvent ==
  /\ last'.op \in {"success", "failed", "cancelled"}
  /\ scope_table[last'.scope].cancelled

\* C31: the step in which an EXIT order cancels a scope S takes one off the
\* count of the parent P of S, the slot P held for the owner of S (the recruits
\* of the order are then counted in P), and no event of a task of S handled
\* afterwards changes the count of P.
C31_ParentReleasedOnce ==
  [][LET P == scope_table[last'.scope].back_id
     IN /\ ExitHandled =>
             scope_table'[P].count =
               scope_table[P].count - 1 + Cardinality(downstreams(last'.node))
        /\ (LateEvent /\ P # None) =>
             scope_table'[P].count = scope_table[P].count]_vars

\* The step handled an order, control-only or of a task that succeeded,
\* attributed to a scope that had been cancelled.
LateOrder ==
  /\ last'.op \in {"success", "control", "iter", "join_release", "join_wait"}
  /\ scope_table[last'.scope].cancelled

\* C32: the order of a SUCCESS event, or a control-only order, attributed to a
\* scope that is already cancelled is dropped: the step puts nothing on the
\* ready queue (no recruit, no recall), creates and cancels no scope and leaves
\* every scope's count as it was.
C32_LateOrderDropped ==
  [][LateOrder =>
       /\ last'.dropped
       /\ Grown = <<>>
       /\ scope_count' = scope_count
       /\ scope_table' = scope_table]_vars

\* A task whose node has a downstream succeeded after a Break had cancelled
\* its scope, other activations waiting on the ready queue.
C32_Witness ==
  /\ last.op = "success"
  /\ last.dropped
  /\ downstreams(last.node) # {}
  /\ scope_table[last.scope].cancelled
  /\ scope_table[last.scope].count > 0

\* C33: the result of a task that succeeds after a Break has cancelled its
\* scope is discarded: the step that handles the event leaves the binding of
\* the task's handle in the context as it was.
C33_LateResultDiscarded ==
  [][(last'.op = "success" /\ scope_table[last'.scope].cancelled)
       => context'[last'.node] = context[last'.node]]_vars

\* C34: between the handling of two orders or events every scope's count is
\* non-negative, the cancelled scopes whose tasks still end included.
C34_CountsNonNegative ==
  \A s \in DOMAIN scope_table : scope_table[s].count >= 0

\* The last task of a cancelled scope has failed: nothing of the scope is
\* queued or in flight any more, and its count has come down to the one its
\* Break was recruited with.
C34_Witness ==
  /\ last.op \in {"failed", "cancelled"}
  /\ scope_table[last.scope].cancelled
  /\ ~Live(last.scope)
  /\ scope_table[last.scope].count = 1

\* -------------------------------------------------------- the ready queue
FifoInit == InitOf(Graphs \cup {"pair"})

FifoSpec == FifoInit /\ [][Next]_vars

\* The steps that advance an activation: "ready_nodes.popleft(); next(coro)".
Advancing ==
  {"submit", "submit_error", "control", "node_error", "iter", "stop_iteration",
   "join_release", "join_wait"}

\* C35: the ready queue starts as the starters in starter order; a step that
\* advances an activation advances the one at the head of the queue, and every
\* step leaves the other entries in their order and puts what it enqueues
\* behind them, so no activation is overtaken by one enqueued later.
C35_ReadyQueueFifo ==
  /\ [](last = NoStep =>
          /\ Len(ready_nodes) = Len(starters(graph))
          /\ \A i \in DOMAIN ready_nodes :
               ready_nodes[i] = Entry(Coro(starters(graph)[i]), 0, 0, 0))
  /\ [][IF last'.op \in Advancing
          THEN /\ ready_nodes # <<>>
               /\ last'.node = Head(ready_nodes).node
               /\ last'.scope = Head(ready_nodes).scope
               /\ IsPrefix(Tail(ready_nodes), ready_nodes')
          ELSE IsPrefix(ready_nodes, ready_nodes')]_vars

\* The second starter is advanced while the node recruited by the result of
\* the first one, enqueued after it, waits behind.
C35_Witness ==
  /\ graph = "pair"
  /\ last.op = "submit"
  /\ last.node = "pb"
  /\ context["pa"] # 0
  /\ Len(ready_nodes) = 1
  /\ ready_nodes[1].node = "px"

\* ------------------------------------------------- views handed to workers
\* What forward does to the context while tasks run: it hands a view of the
\* handles an order reads to the executor (submit), and binds the cell that
\* carries a task's result under the handle of the task's node (SUCCESS).
SnapshotNext ==
  \/ \E uids \in SUBSET UIDs : View(uids)
  \/ \E uid \in UIDs, value \in CellValues : __setitem__("parent", uid, value)

SnapshotSpec == CellInit /\ [][SnapshotNext]_vars

\* C36: a result bound by the scheduler, under whatever handle, leaves the
\* view handed out before as it was: the same handles, bound to the same cells,
\* and the same value read through each of them.
C36_ViewIsSnapshot ==
  [][cell_last'.op = "setitem" =>
       /\ viewed' = viewed
       /\ \A u \in Bound(viewed) : Read(viewed, u)' = Read(viewed, u)]_vars

\* A new result was bound under a handle the view holds: the view still reads
\* the old value, the context the new one.
C36_Witness ==
  /\ cell_last.op = "setitem"
  /\ cell_last.who = "parent"
  /\ cell_last.uid \in Bound(viewed)
  /\ viewed[cell_last.uid] # _data[cell_last.uid]
  /\ Read(viewed, cell_last.uid) = Ok(IntValue(0))
  /\ Read(_data, cell_last.uid) = Ok(IntValue(1))

\* -------------------------------------------------- a Break in the root scope
\* C37: an EXIT order handled in a scope without a back scope (the root scope)
\* raises out of forward; the step enqueues none of the order's recruits,
\* creates no scope and leaves every scope's count as it was.
C37_ExitAtRootRaises ==
  [][(/\ last'.op = "control"
      /\ last'.ctl = "exit"
      /\ ~last'.dropped
      /\ scope_table[last'.scope].back_id = None)
       => /\ pc' = "raised"
          /\ ready_nodes' = Tail(ready_nodes)
          /\ scope_count' = scope_count
          /\ \A s \in DOMAIN scope_table :
               scope_table'[s].count = scope_table[s].count]_vars

\* The Break that starts the graph "root", with a downstream to recruit, has
\* been handled in the root scope.
C37_Witness ==
  /\ graph = "root"
  /\ last.op = "control"
  /\ last.ctl = "exit"
  /\ last.node = "rbrk"
  /\ last.scope = 0
  /\ downstreams(last.node) # {}
  /\ pc = "raised"

\* ------------------------------------- the status-tracking Graph: sorting
\* The values of a sequence.
Range(q) == {q[i] : i \in DOMAIN q}

\* The nodes the connected input slots of node n take their data from, in the
\* order of the slots ("in_slot.source.node" where the source is not None).
Sources(slots, n) ==
  LET connected == SelectSeq(slots[n], LAMBDA sl : sl.source # "none")
  IN [i \in DOMAIN connected |-> connected[i].source]

\* "adj_list[source_node].append(current)" for each source of current, the
\* keys of current and of its sources being created when missing.
Adjoin(adj, srcs, current) ==
  [k \in DOMAIN adj \cup {current} \cup Range(srcs) |->
     (IF k \in DOMAIN adj THEN adj[k] ELSE <<>>)
       \o [i \in 1..Cardinality({j \in DOMAIN srcs : srcs[j] = k}) |-> current]]

\* collect_relevant_nodes: the loop over the stack.  in_degree is a dict, kept
\* as its keys in insertion order and its values; adj_list is a dict of lists.
RECURSIVE collect_relevant_nodes(_, _, _, _)
collect_relevant_nodes(slots, stack, in_degree, adj_list) ==
  IF stack = <<>>
    THEN [in_degree |-> in_degree, adj_list |-> adj_list]
    ELSE
      LET current == stack[Len(stack)]
          rest == SubSeq(stack, 1, Len(stack) - 1)
          srcs == Sources(slots, current)
      IN IF current \in Range(in_degree.keys)
           THEN collect_relevant_nodes(slots, rest, in_degree, adj_list)
           ELSE collect_relevant_nodes(
                  slots, rest \o srcs,
                  [keys |-> Append(in_degree.keys, current),
                   val |-> [k \in DOMAIN in_degree.val \cup {current} |->
                              IF k = current THEN Len(srcs) ELSE in_degree.val[k]]],
                  Adjoin(adj_list, srcs, current))

\* "for neighbor in adj_list[current]: in_degree[neighbor] -= 1; if it is 0:
\* queue.append(neighbor)", from the i-th neighbor on.
RECURSIVE Relax(_, _, _, _)
Relax(neighbors, i, in_degree, queue) ==
  IF i > Len(neighbors)
    THEN [in_degree |-> in_degree, queue |-> queue]
    ELSE
      LET d == [in_degree EXCEPT ![neighbors[i]] = @ - 1]
      IN Relax(neighbors, i + 1, d,
               IF d[neighbors[i]] = 0 THEN Append(queue, neighbors[i]) ELSE queue)

\* "while queue: current = queue.popleft(); sorted_nodes.append(current); ..."
RECURSIVE Drain(_, _, _, _)
Drain(queue, sorted_nodes, in_degree, adj_list) ==
  IF queue = <<>>
    THEN sorted_nodes
    ELSE
      LET r == Relax(adj_list[Head(queue)], 1, in_degree, Tail(queue))
      IN Drain(r.queue, Append(sorted_nodes, Head(queue)), r.in_degree, adj_list)

\* What topological_sort gives: a list of nodes returned, or an exception.
Sorted(nodes) == [ok |-> TRUE, nodes |-> nodes, err |-> "none"]
SortFails(err) == [ok |-> FALSE, nodes |-> <<>>, err |-> err]

\* The nodes Kahn's loop gets through, for the requested nodes.
SortedNodes(slots, nodes) ==
  LET c == collect_relevant_nodes(slots, nodes,
                                  [keys |-> <<>>, val |-> <<>>], <<>>)
      queue == SelectSeq(c.in_degree.keys, LAMBDA n : c.in_degree.val[n] = 0)
  IN Drain(queue, <<>>, c.in_degree.val, c.adj_list)

\* A topological_sort that returns whatever nodes its loop got through.
topological_sort_unchecked(slots, nodes) == Sorted(SortedNodes(slots, nodes))

\* topological_sort: ValueError when the loop did not get through every node
\* collected ("len(sorted_nodes) != len(adj_list)").
topological_sort(slots, nodes) ==
  LET c == collect_relevant_nodes(slots, nodes,
                                  [keys |-> <<>>, val |-> <<>>], <<>>)
  IN IF Len(SortedNodes(slots, nodes)) # Cardinality(DOMAIN c.adj_list)
       THEN SortFails("ValueError")
       ELSE Sorted(SortedNodes(slots, nodes))

\* ------------------------------------ the status-tracking Graph: execute
\* _set_status on (status, what the listener heard so far): the listeners are
\* called when the status differs from the current one.
_set_status(g, new) ==
  IF new # g.status
    THEN [status |-> new, heard |-> Append(g.heard, new)]
    ELSE g

\* _get_inputs: NodeIOError for a slot that is neither connected nor has a
\* default, or whose source has no result in the context.
_get_inputs(slots, ctx) ==
  IF \E i \in DOMAIN slots :
       \/ slots[i].source = "none" /\ ~slots[i].has_default
       \/ slots[i].source # "none" /\ slots[i].source \notin ctx
    THEN "NodeIOError"
    ELSE "none"

\* How node.run ends: it returns one result per output slot, raises, or returns
\* more or fewer results than the node has output slots.
Faults == {"raises", "many", "few"}

\* _put_outputs for a node with one output slot: zip(..., strict=True) stores
\* the result of the slot before it finds a result too many, and stores
\* nothing when there is no result at all.
_put_outputs(ctx, n, returned_as) ==
  CASE returned_as = "many" -> [ctx |-> ctx \cup {n}, raised |-> "NodeIOError"]
    [] returned_as = "few" -> [ctx |-> ctx, raised |-> "NodeIOError"]
    [] OTHER -> [ctx |-> ctx \cup {n}, raised |-> "none"]

\* The loop of execute over the sorted nodes, from the i-th on; node f is the
\* one whose run ends in the given fault.  ended is "else" when the loop ran
\* out, "break" when a node raised, or the exception that left the loop.
RECURSIVE RunNodes(_, _, _, _, _, _)
RunNodes(slots, order, i, ctx, f, fault) ==
  IF i > Len(order)
    THEN [ctx |-> ctx, ended |-> "else"]
    ELSE
      LET node == order[i]
          put == _put_outputs(ctx, node, IF node = f THEN fault ELSE "returns")
      IN IF _get_inputs(slots[node], ctx) # "none"
           THEN [ctx |-> ctx, ended |-> _get_inputs(slots[node], ctx)]
         ELSE IF node = f /\ fault = "raises"
           THEN [ctx |-> ctx, ended |-> "break"]
         ELSE IF put.raised # "none"
           THEN [ctx |-> put.ctx, ended |-> put.raised]
         ELSE RunNodes(slots, order, i + 1, put.ctx, f, fault)

\* "node.add_input(name); node.get_input(name).connect(src.get_output(...))"
connect(n, src) ==
  /\ Len(_input_slots["a"]) + Len(_input_slots["b"]) + Len(_input_slots["c"]) < MaxSlots
  /\ _input_slots' = [_input_slots EXCEPT ![n] = Append(@, InputSlot(src, FALSE))]
  /\ dag_last' = DagCall("connect", <<n>>, <<>>, "none", <<>>)
  /\ UNCHANGED <<sched_vars, pool_vars, expr_vars, cell_vars, reg_vars,
                 output_nodes, dag_status, slot_context>>

\* "node.add_input(name)" or "node.add_input(name, default=...)"
add_input(n, has_default) ==
  /\ Len(_input_slots["a"]) + Len(_input_slots["b"]) + Len(_input_slots["c"]) < MaxSlots
  /\ _input_slots' = [_input_slots EXCEPT ![n] = Append(@, InputSlot("none", has_default))]
  /\ dag_last' = DagCall("add_input", <<n>>, <<>>, "none", <<>>)
  /\ UNCHANGED <<sched_vars, pool_vars, expr_vars, cell_vars, reg_vars,
                 output_nodes, dag_status, slot_context>>

\* Graph.execute(), the run of node f (if any) ending in the given fault.
\* _capture_exception builds NodeExceptionData(inputs=...), a field the
\* dataclass does not have: the handler of a node's exception raises TypeError
\* once the status is DEBUG.
execute(f, fault) ==
  /\ IF dag_status # "READY"
       THEN /\ dag_last' = DagCall("execute", output_nodes, <<>>, "GraphStatusError", <<>>)
            /\ UNCHANGED <<dag_status, slot_context>>
       ELSE
         LET g1 == _set_status([status |-> dag_status, heard |-> <<>>], "RUN")
             order == topological_sort(_input_slots, output_nodes)
             r == RunNodes(_input_slots, order.nodes, 1, slot_context, f, fault)
             g2 == CASE r.ended = "else" -> _set_status(g1, "STOP")
                     [] r.ended = "break" -> _set_status(g1, "DEBUG")
                     [] OTHER -> g1
         IN IF ~order.ok
              THEN /\ dag_status' = g1.status
                   /\ dag_last' = DagCall("execute", output_nodes, <<>>, order.err, g1.heard)
                   /\ UNCHANGED slot_context
              ELSE /\ dag_status' = g2.status
                   /\ slot_context' = r.ctx
                   /\ dag_last' =
                        DagCall("execute", output_nodes, order.nodes,
                                CASE r.ended = "else" -> "none"
                                  [] r.ended = "break" -> "TypeError"
                                  [] OTHER -> r.ended,
                                g2.heard)
  /\ UNCHANGED <<sched_vars, pool_vars, expr_vars, cell_vars, reg_vars,
                 _input_slots, output_nodes>>

\* Graph.reset()
reset ==
  /\ LET g == _set_status([status |-> dag_status, heard |-> <<>>], "READY")
     IN /\ dag_status' = g.status
        /\ dag_last' = DagCall("reset", <<>>, <<>>, "none", g.heard)
  /\ slot_context' = {}
  /\ UNCHANGED <<sched_vars, pool_vars, expr_vars, cell_vars, reg_vars,
                 _input_slots, output_nodes>>

\* A new Graph with one output node, or two.
GraphInit ==
  /\ SchedIdle
  /\ PoolIdle
  /\ ExprIdle
  /\ CellIdle
  /\ RegIdle
  /\ _input_slots = [n \in GNodes |-> <<>>]
  /\ output_nodes \in {<<"c">>, <<"b", "c">>}
  /\ dag_status = "READY"
  /\ slot_context = {}
  /\ dag_last = DagCall("init", <<>>, <<>>, "none", <<>>)

GraphNext ==
  \/ \E n, src \in GNodes : connect(n, src)
  \/ \E n \in GNodes, d \in BOOLEAN : add_input(n, d)
  \/ \E f \in GNodes \cup {"none"}, fault \in Faults : execute(f, fault)
  \/ reset

GraphSpec == GraphInit /\ [][GraphNext]_vars

\* C38: execute() called in a status other than READY raises GraphStatusError
\* and leaves status and context as they were; called in READY it ends with the
\* status STOP, every node having run, or DEBUG, never RUN; the status becomes
\* READY again by reset() only; and during every call the status listener is
\* called once for each change of the status, with the new status.
C38_ExecuteFromReadyEnds ==
  [][LET call == dag_last'
     IN /\ (call.op = "execute" /\ dag_status # "READY") =>
             /\ call.raised = "GraphStatusError"
             /\ dag_status' = dag_status
             /\ slot_context' = slot_context
        /\ (call.op = "execute" /\ dag_status = "READY") =>
             /\ dag_status' \in {"STOP", "DEBUG"}
             /\ dag_status' = "STOP" => slot_context' = Range(call.out)
        /\ (dag_status' = "READY" /\ dag_status # "READY") => call.op = "reset"
        /\ (dag_status' # dag_status) <=> (call.heard # <<>>)
        /\ call.heard # <<>> =>
             /\ call.heard[1] # dag_status
             /\ call.heard[Len(call.heard)] = dag_status'
             /\ \A i \in 1..(Len(call.heard) - 1) : call.heard[i] # call.heard[i + 1]]_vars

\* ------------------------------------------------------ topological_sort
\* topological_sort(nodes) called on the nodes as they are wired.
TopologicalSort(nodes) ==
  /\ LET order == topological_sort(_input_slots, nodes)
     IN dag_last' = DagCall("topological_sort", nodes, order.nodes, order.err, <<>>)
  /\ UNCHANGED <<sched_vars, pool_vars, expr_vars, cell_vars, reg_vars,
                 _input_slots, output_nodes, dag_status, slot_context>>

\* The lists of nodes a sort is asked for: one node, or two (the same twice too).
Requests == {<<n>> : n \in GNodes} \cup {<<n, m>> : n \in GNodes, m \in GNodes}

\* Nodes without any input slot, and no Graph run on them.
TopoInit ==
  /\ SchedIdle
  /\ PoolIdle
  /\ ExprIdle
  /\ CellIdle
  /\ RegIdle
  /\ _input_slots = [n \in GNodes |-> <<>>]
  /\ output_nodes = <<>>
  /\ dag_status = "READY"
  /\ slot_context = {}
  /\ dag_last = DagCall("init", <<>>, <<>>, "none", <<>>)

TopoNext ==
  \/ \E n, src \in GNodes : connect(n, src)
  \/ \E n \in GNodes : add_input(n, FALSE)
  \/ \E nodes \in Requests : TopologicalSort(nodes)

TopoSpec == TopoInit /\ [][TopoNext]_vars

\* The nodes that feed an input slot of node n.
Feeds(n) == {_input_slots[n][i].source : i \in DOMAIN _input_slots[n]} \ {"none"}

\* The nodes of S and every node upstream of one of them.
RECURSIVE UpstreamOf(_)
UpstreamOf(S) ==
  LET more == S \cup UNION {Feeds(n) : n \in S}
  IN IF more = S THEN S ELSE UpstreamOf(more)

\* Node n is upstream of itself: the wiring has a cycle through it.
OnCycle(n) == Feeds(n) # {} /\ n \in UpstreamOf(Feeds(n))

\* C39: topological_sort raises ValueError when the nodes upstream of the
\* requested ones contain a cycle; otherwise it returns each of these nodes
\* exactly once, every node after all the nodes that feed its input slots
\* (a source feeding several slots of one node included).
C39_SortIsTopological ==
  dag_last.op = "topological_sort" =>
    LET upstream == UpstreamOf(Range(dag_last.nodes))
        sorted == dag_last.out
    IN IF \E n \in upstream : OnCycle(n)
         THEN dag_last.raised = "ValueError"
         ELSE /\ dag_last.raised = "none"
              /\ Range(sorted) = upstream
              /\ Len(sorted) = Cardinality(upstream)
              /\ \A i, j \in DOMAIN sorted :
                   sorted[j] \in Feeds(sorted[i]) => j < i

\* A node fed twice by the same source and once by another is sorted after
\* both of them.
C39_Witness ==
  /\ dag_last.op = "topological_sort"
  /\ dag_last.nodes = <<"c">>
  /\ _input_slots["c"] = <<InputSlot("a", FALSE), InputSlot("a", FALSE), InputSlot("b", FALSE)>>
  /\ dag_last.raised = "none"
  /\ dag_last.out[3] = "c"

====
